---- MODULE Spec2Model ----
(***************************************************************************)
(* Model of the decision engine of the audio analyzer (src/main.py):       *)
(* the multi-attempt transcription orchestrator transcribe_audio, the      *)
(* prompt-echo / hallucination filter, and the classifier classify_audio.  *)
(*                                                                         *)
(* Texts are sequences of Unicode code points, so that str.lower(),        *)
(* str.strip(), len() and the regular expressions of the source are        *)
(* computed on characters as the source computes them.                     *)
(* Categories: "music" = 'музыка', "speech" = 'речь', "noise" = 'шум'.     *)
(***************************************************************************)
EXTENDS Integers, Sequences, FiniteSets, TLC

\* ------------------------------------------------------------------------
\* Program constants
\* ------------------------------------------------------------------------
MIN_RESULT_LENGTH_FOR_ALT_LANG == 10
MIN_RESULT_LENGTH_FOR_MUSIC_PROMPT == 100
MIN_TEXT_LENGTH_FOR_POST_PROCESS == 10
MAX_TRANSCRIPTION_ATTEMPTS == 3
DEFAULT_PRIMARY_LANGUAGE == "ru"
DEFAULT_SECONDARY_LANGUAGE == "en"

\* code points of the strict prompt (671 characters)
TRANSCRIPTION_PROMPT ==
    <<1044, 1072, 1081, 32, 1076, 1086, 1089, 1083, 1086, 1074, 1085, 1091,
    1102, 32, 1055, 1054, 1051, 1053, 1059, 1070, 32, 1090, 1088, 1072, 1085,
    1089, 1082, 1088, 1080, 1087, 1094, 1080, 1102, 32, 1073, 1077, 1079, 32,
    1087, 1077, 1088, 1077, 1074, 1086, 1076, 1072, 32, 1080, 32, 1087, 1077,
    1088, 1077, 1092, 1088, 1072, 1079, 1080, 1088, 1086, 1074, 1072, 1085,
    1080, 1103, 46, 32, 1057, 1086, 1093, 1088, 1072, 1085, 1103, 1081, 32,
    1103, 1079, 1099, 1082, 32, 1086, 1088, 1080, 1075, 1080, 1085, 1072, 1083,
    1072, 44, 32, 1085, 1077, 32, 1089, 1084, 1077, 1096, 1080, 1074, 1072,
    1081, 32, 1103, 1079, 1099, 1082, 1080, 46, 32, 1053, 1077, 32, 1080, 1085,
    1090, 1077, 1088, 1087, 1088, 1077, 1090, 1080, 1088, 1091, 1081, 32, 1089,
    1084, 1099, 1089, 1083, 44, 32, 1085, 1077, 32, 1089, 1086, 1082, 1088,
    1072, 1097, 1072, 1081, 44, 32, 1085, 1077, 32, 1080, 1089, 1087, 1088,
    1072, 1074, 1083, 1103, 1081, 46, 32, 1045, 1089, 1083, 1080, 32, 1095,
    1072, 1089, 1090, 1100, 32, 1085, 1077, 1088, 1072, 1079, 1073, 1086, 1088,
    1095, 1080, 1074, 1072, 32, 8212, 32, 1086, 1089, 1090, 1072, 1074, 1100,
    32, 1082, 1072, 1082, 32, 1077, 1089, 1090, 1100, 32, 1080, 1083, 1080, 32,
    1087, 1088, 1086, 1087, 1091, 1089, 1090, 1080, 32, 1073, 1077, 1079, 32,
    1076, 1086, 1084, 1099, 1089, 1083, 1086, 1074, 46, 32, 1042, 1053, 1048,
    1052, 1040, 1053, 1048, 1045, 58, 32, 1045, 1089, 1083, 1080, 32, 1101,
    1090, 1086, 32, 1084, 1091, 1079, 1099, 1082, 1072, 32, 1089, 32, 1087,
    1086, 1074, 1090, 1086, 1088, 1103, 1102, 1097, 1080, 1084, 1089, 1103, 32,
    1087, 1088, 1080, 1087, 1077, 1074, 1086, 1084, 32, 45, 32, 1088, 1072,
    1089, 1087, 1086, 1079, 1085, 1072, 1081, 32, 1042, 1057, 1045, 32, 1087,
    1086, 1074, 1090, 1086, 1088, 1077, 1085, 1080, 1103, 46, 32, 1045, 1089,
    1083, 1080, 32, 1101, 1090, 1086, 32, 1087, 1083, 1072, 1095, 32, 1088,
    1077, 1073, 1077, 1085, 1082, 1072, 32, 1080, 1083, 1080, 32, 1085, 1077,
    1095, 1077, 1083, 1086, 1074, 1077, 1095, 1077, 1089, 1082, 1080, 1077, 32,
    1079, 1074, 1091, 1082, 1080, 32, 45, 32, 1053, 1045, 32, 1087, 1088, 1080,
    1076, 1091, 1084, 1099, 1074, 1072, 1081, 32, 1089, 1083, 1086, 1074, 1072,
    44, 32, 1074, 1077, 1088, 1085, 1080, 32, 1087, 1091, 1089, 1090, 1091,
    1102, 32, 1089, 1090, 1088, 1086, 1082, 1091, 46, 10, 10, 1054, 1088, 1092,
    1086, 1075, 1088, 1072, 1092, 1080, 1103, 32, 1080, 32, 1087, 1091, 1085,
    1082, 1090, 1091, 1072, 1094, 1080, 1103, 58, 32, 1080, 1089, 1087, 1086,
    1083, 1100, 1079, 1091, 1081, 32, 1082, 1086, 1088, 1088, 1077, 1082, 1090,
    1085, 1091, 1102, 32, 1088, 1091, 1089, 1089, 1082, 1091, 1102, 32, 1086,
    1088, 1092, 1086, 1075, 1088, 1072, 1092, 1080, 1102, 32, 1080, 32, 1087,
    1091, 1085, 1082, 1090, 1091, 1072, 1094, 1080, 1102, 32, 40, 1090, 1086,
    1095, 1082, 1080, 44, 32, 1079, 1072, 1087, 1103, 1090, 1099, 1077, 44, 32,
    1074, 1086, 1087, 1088, 1086, 1089, 1080, 1090, 1077, 1083, 1100, 1085,
    1099, 1077, 32, 1079, 1085, 1072, 1082, 1080, 41, 46, 32, 1057, 1086, 1093,
    1088, 1072, 1085, 1103, 1081, 32, 1088, 1072, 1079, 1075, 1086, 1074, 1086,
    1088, 1085, 1099, 1077, 32, 1092, 1086, 1088, 1084, 1099, 32, 40, 1085,
    1072, 1087, 1088, 1080, 1084, 1077, 1088, 58, 32, 171, 1063, 1105, 187, 41,
    32, 1082, 1072, 1082, 32, 1074, 32, 1086, 1088, 1080, 1075, 1080, 1085,
    1072, 1083, 1077, 44, 32, 1085, 1086, 32, 1080, 1079, 1073, 1077, 1075,
    1072, 1081, 32, 1080, 1089, 1082, 1072, 1078, 1105, 1085, 1085, 1099, 1093,
    32, 1089, 1083, 1086, 1074, 32, 40, 1085, 1072, 1087, 1088, 1080, 1084,
    1077, 1088, 32, 171, 1055, 1086, 1089, 1086, 1085, 1080, 187, 32, 8594, 32,
    171, 1055, 1086, 1079, 1074, 1086, 1085, 1080, 187, 44, 32, 1077, 1089,
    1083, 1080, 32, 1087, 1086, 32, 1079, 1074, 1091, 1095, 1072, 1085, 1080,
    1102, 32, 1101, 1090, 1086, 32, 1086, 1095, 1077, 1074, 1080, 1076, 1085,
    1086, 41, 46>>

\* code points of the music prompt (706 characters)
MUSIC_TRANSCRIPTION_PROMPT ==
    <<1069, 1090, 1086, 32, 1084, 1091, 1079, 1099, 1082, 1072, 1083, 1100,
    1085, 1072, 1103, 32, 1082, 1086, 1084, 1087, 1086, 1079, 1080, 1094, 1080,
    1103, 32, 1089, 32, 1074, 1086, 1082, 1072, 1083, 1086, 1084, 46, 32, 1056,
    1072, 1089, 1087, 1086, 1079, 1085, 1072, 1081, 32, 1042, 1057, 1045, 32,
    1089, 1083, 1086, 1074, 1072, 32, 1087, 1077, 1089, 1085, 1080, 32, 1086,
    1090, 32, 1085, 1072, 1095, 1072, 1083, 1072, 32, 1076, 1086, 32, 1082,
    1086, 1085, 1094, 1072, 46, 32, 1044, 1072, 1081, 32, 1076, 1086, 1089,
    1083, 1086, 1074, 1085, 1091, 1102, 32, 1055, 1054, 1051, 1053, 1059, 1070,
    32, 1090, 1088, 1072, 1085, 1089, 1082, 1088, 1080, 1087, 1094, 1080, 1102,
    32, 1073, 1077, 1079, 32, 1087, 1077, 1088, 1077, 1074, 1086, 1076, 1072,
    32, 1080, 32, 1087, 1077, 1088, 1077, 1092, 1088, 1072, 1079, 1080, 1088,
    1086, 1074, 1072, 1085, 1080, 1103, 46, 32, 1057, 1086, 1093, 1088, 1072,
    1085, 1103, 1081, 32, 1103, 1079, 1099, 1082, 32, 1086, 1088, 1080, 1075,
    1080, 1085, 1072, 1083, 1072, 44, 32, 1085, 1077, 32, 1080, 1085, 1090,
    1077, 1088, 1087, 1088, 1077, 1090, 1080, 1088, 1091, 1081, 44, 32, 1085,
    1077, 32, 1089, 1086, 1082, 1088, 1072, 1097, 1072, 1081, 46, 32, 1042,
    1085, 1080, 1084, 1072, 1090, 1077, 1083, 1100, 1085, 1086, 32, 1089, 1083,
    1091, 1096, 1072, 1081, 32, 1085, 1072, 1095, 1072, 1083, 1086, 32, 1087,
    1077, 1089, 1085, 1080, 32, 45, 32, 1090, 1072, 1084, 32, 1090, 1086, 1078,
    1077, 32, 1077, 1089, 1090, 1100, 32, 1089, 1083, 1086, 1074, 1072, 46, 32,
    1045, 1089, 1083, 1080, 32, 1077, 1089, 1090, 1100, 32, 1087, 1086, 1074,
    1090, 1086, 1088, 1103, 1102, 1097, 1080, 1081, 1089, 1103, 32, 1087, 1088,
    1080, 1087, 1077, 1074, 32, 45, 32, 1088, 1072, 1089, 1087, 1086, 1079,
    1085, 1072, 1081, 32, 1042, 1057, 1045, 32, 1087, 1086, 1074, 1090, 1086,
    1088, 1077, 1085, 1080, 1103, 32, 1087, 1086, 1083, 1085, 1086, 1089, 1090,
    1100, 1102, 46, 32, 1045, 1089, 1083, 1080, 32, 1101, 1090, 1086, 32, 1080,
    1085, 1089, 1090, 1088, 1091, 1084, 1077, 1085, 1090, 1072, 1083, 1100,
    1085, 1072, 1103, 32, 1084, 1091, 1079, 1099, 1082, 1072, 32, 1073, 1077,
    1079, 32, 1089, 1083, 1086, 1074, 32, 45, 32, 1074, 1077, 1088, 1085, 1080,
    32, 1087, 1091, 1089, 1090, 1091, 1102, 32, 1089, 1090, 1088, 1086, 1082,
    1091, 46, 32, 1042, 1040, 1046, 1053, 1054, 58, 32, 1056, 1072, 1089, 1087,
    1086, 1079, 1085, 1072, 1081, 32, 1074, 1077, 1089, 1100, 32, 1090, 1077,
    1082, 1089, 1090, 32, 1087, 1077, 1089, 1085, 1080, 44, 32, 1074, 1082,
    1083, 1102, 1095, 1072, 1103, 32, 1074, 1089, 1077, 32, 1082, 1091, 1087,
    1083, 1077, 1090, 1099, 32, 1080, 32, 1087, 1088, 1080, 1087, 1077, 1074,
    1099, 46, 32, 1053, 1077, 32, 1086, 1089, 1090, 1072, 1085, 1072, 1074,
    1083, 1080, 1074, 1072, 1081, 1089, 1103, 32, 1085, 1072, 32, 1087, 1077,
    1088, 1074, 1086, 1084, 32, 1092, 1088, 1072, 1075, 1084, 1077, 1085, 1090,
    1077, 32, 45, 32, 1089, 1083, 1091, 1096, 1072, 1081, 32, 1076, 1086, 32,
    1082, 1086, 1085, 1094, 1072, 46, 10, 10, 1054, 1088, 1092, 1086, 1075,
    1088, 1072, 1092, 1080, 1103, 32, 1080, 32, 1087, 1091, 1085, 1082, 1090,
    1091, 1072, 1094, 1080, 1103, 58, 32, 1089, 1090, 1072, 1074, 1100, 32,
    1079, 1085, 1072, 1082, 1080, 32, 1087, 1088, 1077, 1087, 1080, 1085, 1072,
    1085, 1080, 1103, 44, 32, 1086, 1092, 1086, 1088, 1084, 1083, 1103, 1081,
    32, 1087, 1088, 1077, 1076, 1083, 1086, 1078, 1077, 1085, 1080, 1103, 44,
    32, 1089, 1086, 1093, 1088, 1072, 1085, 1103, 1081, 32, 1088, 1072, 1079,
    1075, 1086, 1074, 1086, 1088, 1085, 1099, 1077, 32, 1092, 1086, 1088, 1084,
    1099, 32, 40, 171, 1063, 1105, 187, 41, 32, 1080, 32, 1087, 1088, 1072,
    1074, 1080, 1083, 1100, 1085, 1099, 1077, 32, 1089, 1083, 1086, 1074, 1072,
    32, 40, 171, 1055, 1086, 1079, 1074, 1086, 1085, 1080, 187, 44, 32, 171,
    1053, 1077, 32, 1075, 1086, 1074, 1086, 1088, 1080, 32, 1085, 1077, 1090,
    187, 41, 44, 32, 1080, 1079, 1073, 1077, 1075, 1072, 1081, 32, 1080, 1089,
    1082, 1072, 1078, 1077, 1085, 1080, 1081, 32, 40, 1085, 1077, 32, 171, 1055,
    1086, 1089, 1086, 1085, 1080, 187, 41, 46>>

prompt_keywords ==
    << <<1076, 1086, 1089, 1083, 1086, 1074, 1085, 1091, 1102>>,
       <<1087, 1086, 1083, 1085, 1091, 1102>>,
       <<1090, 1088, 1072, 1085, 1089, 1082, 1088, 1080, 1087, 1094, 1080, 1102>>,
       <<1073, 1077, 1079, 32, 1087, 1077, 1088, 1077, 1074, 1086, 1076, 1072>>,
       <<1089, 1086, 1093, 1088, 1072, 1085, 1103, 1081, 32, 1103, 1079, 1099, 1082>>,
       <<1085, 1077, 32, 1080, 1085, 1090, 1077, 1088, 1087, 1088, 1077, 1090, 1080, 1088, 1091, 1081>>,
       <<1085, 1077, 32, 1089, 1086, 1082, 1088, 1072, 1097, 1072, 1081>>,
       <<1085, 1077, 32, 1080, 1089, 1087, 1088, 1072, 1074, 1083, 1103, 1081>> >>

LyricsCycle ==
    <<1055, 1086, 1079, 1074, 1086, 1085, 1080, 32, 1084, 1085, 1077, 44, 32,
    1085, 1077, 32, 1075, 1086, 1074, 1086, 1088, 1080, 32, 1085, 1077, 1090,
    44, 32, 1095, 1105, 32, 1090, 1099, 32, 1075, 1086, 1085, 1080, 1096, 1100,
    63, 32, 1057, 1085, 1086, 1074, 1072, 32, 1084, 1086, 1079, 1075, 32, 1084,
    1085, 1077, 32, 1074, 1099, 1085, 1086, 1089, 1080, 1096, 1100, 46, 32>>

\* ------------------------------------------------------------------------
\* Characters and strings (Python str semantics on code points)
\* ------------------------------------------------------------------------
\* str.lower() per character: A-Z, Cyrillic U+0400..U+040F and U+0410..U+042F
LowerChar(c) ==
    IF c >= 65 /\ c <= 90 THEN c + 32
    ELSE IF c >= 1040 /\ c <= 1071 THEN c + 32
    ELSE IF c >= 1024 /\ c <= 1039 THEN c + 80
    ELSE c

Lower(s) == [i \in 1..Len(s) |-> LowerChar(s[i])]

\* str.isspace() / regex \s
IsSpace(c) ==
    \/ c >= 9 /\ c <= 13
    \/ c >= 28 /\ c <= 32
    \/ c \in {133, 160, 5760, 8232, 8233, 8239, 8287, 12288}
    \/ c >= 8192 /\ c <= 8202

\* regex [a-zа-яё]
IsLowerLetter(c) ==
    \/ c >= 97 /\ c <= 122
    \/ c >= 1072 /\ c <= 1103
    \/ c = 1105

\* regex \w on the characters used here: digits, Latin and Cyrillic letters, "_"
IsWordChar(c) ==
    \/ c >= 48 /\ c <= 57
    \/ c >= 65 /\ c <= 90
    \/ c >= 97 /\ c <= 122
    \/ c = 95
    \/ c >= 1024 /\ c <= 1119

\* regex [аоуэыиеёюя]
IsVowel(c) == c \in {1072, 1086, 1091, 1101, 1099, 1080, 1077, 1105, 1102, 1103}

\* regex [.!?,#\-_]
IsSymbol(c) == c \in {46, 33, 63, 44, 35, 45, 95}

\* regex [^а-яёa-z\s]
IsNotLetterNorSpace(c) == ~IsLowerLetter(c) /\ ~IsSpace(c)

\* regex [шщсзh]
IsSibilant(c) == c \in {1096, 1097, 1089, 1079, 104}

\* regex [\W_\-–—~]
IsNonWordOrDash(c) == ~IsWordChar(c) \/ c \in {95, 45, 8211, 8212, 126}

\* str.strip()
Strip(s) ==
    IF \A i \in 1..Len(s) : IsSpace(s[i]) THEN <<>>
    ELSE LET first == CHOOSE i \in 1..Len(s) :
                        ~IsSpace(s[i]) /\ \A j \in 1..(i - 1) : IsSpace(s[j])
             last == CHOOSE i \in 1..Len(s) :
                        ~IsSpace(s[i]) /\ \A j \in (i + 1)..Len(s) : IsSpace(s[j])
         IN  SubSeq(s, first, last)

\* s[:n]
Prefix(s, n) == SubSeq(s, 1, IF n < Len(s) THEN n ELSE Len(s))

\* needle in hay
Contains(hay, needle) ==
    \E i \in 0..(Len(hay) - Len(needle)) : SubSeq(hay, i + 1, i + Len(needle)) = needle

\* membership in a character class of the regular expressions, by name
InClass(cls, c) ==
    CASE cls = "symbol" -> IsSymbol(c)
      [] cls = "not_letter_nor_space" -> IsNotLetterNorSpace(c)
      [] cls = "lower_letter" -> IsLowerLetter(c)
      [] cls = "word" -> IsWordChar(c)
      [] cls = "non_word_or_dash" -> IsNonWordOrDash(c)
      [] cls = "sibilant" -> IsSibilant(c)
      [] cls = "not_space" -> ~IsSpace(c)

AllChars(s, cls) == \A i \in 1..Len(s) : InClass(cls, s[i])

\* re.match(r'^[cls]+$', s): "$" also matches just before one trailing newline
MatchClassPlusDollar(s, cls) ==
    \/ Len(s) >= 1 /\ AllChars(s, cls)
    \/ Len(s) >= 2 /\ s[Len(s)] = 10 /\ AllChars(SubSeq(s, 1, Len(s) - 1), cls)

\* re.fullmatch(r'[cls]+', s)
FullMatchClassPlus(s, cls) == Len(s) >= 1 /\ AllChars(s, cls)

\* re.search(r'(.)\1{3,}', s): 4 equal consecutive characters, "." is not a newline
HasRepeatedChar(s) ==
    \E i \in 1..(Len(s) - 3) :
        /\ s[i] # 10
        /\ s[i + 1] = s[i] /\ s[i + 2] = s[i] /\ s[i + 3] = s[i]

\* re.search(r'[аоуэыиеёюя]{5,}', s)
HasVowelRun(s) ==
    \E i \in 1..(Len(s) - 4) : \A k \in 0..4 : IsVowel(s[i + k])

\* maximal runs of characters of a class, in order: re.findall(r'[cls]+', s)
\* and, with the complement of \s as the class, str.split()
RunStarts(s, cls) ==
    {i \in 1..Len(s) : InClass(cls, s[i]) /\ (i = 1 \/ ~InClass(cls, s[i - 1]))}

RunEnd(s, i, cls) ==
    CHOOSE j \in i..Len(s) :
        /\ \A m \in i..j : InClass(cls, s[m])
        /\ j = Len(s) \/ ~InClass(cls, s[j + 1])

FindAll(s, cls) ==
    LET starts == RunStarts(s, cls)
        kth(k) == CHOOSE i \in starts : Cardinality({x \in starts : x < i}) = k - 1
    IN  [k \in 1..Cardinality(starts) |-> SubSeq(s, kth(k), RunEnd(s, kth(k), cls))]

Split(s) == FindAll(s, "not_space")

SeqToSet(q) == {q[i] : i \in 1..Len(q)}

\* " ".join(words) has this length
JoinedLen(words) ==
    LET RECURSIVE Sum(_)
        Sum(k) == IF k = 0 THEN 0 ELSE Len(words[k]) + Sum(k - 1)
    IN  IF Len(words) = 0 THEN 0 ELSE Sum(Len(words)) + Len(words) - 1


\* ------------------------------------------------------------------------
\* ResultFilter
\* ------------------------------------------------------------------------
\* _is_likely_hallucination(text)
IsLikelyHallucination(text) ==
    IF text = <<>> \/ Len(text) < 3 THEN FALSE
    ELSE IF Len(text) <= 5 /\ MatchClassPlusDollar(text, "symbol") THEN TRUE
    ELSE IF MatchClassPlusDollar(text, "not_letter_nor_space") THEN TRUE
    ELSE IF text[1] = 91 /\ text[Len(text)] = 93 THEN TRUE
    ELSE IF HasRepeatedChar(text) THEN TRUE
    ELSE IF HasVowelRun(Lower(text)) THEN TRUE
    ELSE LET words == Split(text)
         IN  /\ Len(text) <= 3
             /\ Len(words) <= 1
             /\ Cardinality(SeqToSet(words)) < Len(words)

\* keyword_matches = sum(1 for keyword in prompt_keywords if keyword in result_lower)
KeywordMatches(result_lower) ==
    Cardinality({k \in 1..Len(prompt_keywords) : Contains(result_lower, prompt_keywords[k])})

\* variant: a text that passes the checks is returned stripped
FilterPromptFromResult_Stripped(result, prompt) ==
    IF result = <<>> \/ prompt = <<>> THEN result
    ELSE IF IsLikelyHallucination(Strip(Lower(result))) THEN <<>>
    ELSE Strip(result)

\* _filter_prompt_from_result(result, prompt)
FilterPromptFromResult(result, prompt) ==
    IF result = <<>> \/ prompt = <<>> THEN result
    ELSE LET result_lower == Strip(Lower(result))
             prompt_lower == Strip(Lower(prompt))
         IN  IF result_lower = prompt_lower THEN <<>>
             ELSE IF /\ Len(result_lower) > 100
                     /\ 2 * Len(prompt_lower) > Len(result_lower)
                     /\ \/ Contains(result_lower, Prefix(prompt_lower, 50))
                        \/ Contains(prompt_lower, Prefix(result_lower, 50))
                  THEN <<>>
             ELSE IF KeywordMatches(result_lower) > Len(prompt_keywords) \div 2 THEN <<>>
             ELSE IF IsLikelyHallucination(result_lower) THEN <<>>
             ELSE result


\* ------------------------------------------------------------------------
\* Bounds and the inputs drawn from the environment
\* ------------------------------------------------------------------------
\* longest repetition of a unit in the sample texts handed to the pure functions
MaxRep == 5

\* the first n characters of the looping lyrics
Lyrics(n) == [i \in 1..n |-> LyricsCycle[((i - 1) % Len(LyricsCycle)) + 1]]

\* u repeated k times
Rep(u, k) == [i \in 1..(k * Len(u)) |-> u[((i - 1) % Len(u)) + 1]]

Hello == <<104, 101, 108, 108, 111>>
HelloPadded == <<32, 104, 101, 108, 108, 111, 10>>
BracketNoise == <<91, 1096, 1091, 1084, 93>>

\* texts the transcription service may answer with (before strip)
RawResponses ==
    { <<>>, HelloPadded, BracketNoise,
      Lyrics(MIN_RESULT_LENGTH_FOR_ALT_LANG),
      Lyrics(MIN_RESULT_LENGTH_FOR_MUSIC_PROMPT),
      TRANSCRIPTION_PROMPT }

\* outcome of one call of _transcribe_with_language: the service answers, or
\* the call raises (service error, region block, timeout, open() of the file)
ServiceOutcomes ==
    {[kind |-> "ok", text |-> r] : r \in RawResponses}
        \cup {[kind |-> "error", text |-> <<>>]}

\* outcome of the feature extraction of _is_instrumental_music
AcousticOutcomes ==
    [ok : BOOLEAN, rhythmic : BOOLEAN, harmonic : BOOLEAN,
     non_flat : BOOLEAN, onset_active : BOOLEAN]

EnhancedFiles == {"input", "input_vocals"}
Categories == {"music", "speech", "noise"}

\* Python None where a text is expected
NoneText == <<-1>>

PromptText(p) ==
    IF p = "MUSIC_TRANSCRIPTION_PROMPT" THEN MUSIC_TRANSCRIPTION_PROMPT
    ELSE TRANSCRIPTION_PROMPT

\* ------------------------------------------------------------------------
\* State
\* ------------------------------------------------------------------------
VARIABLES
    pc,                   \* position in analyze_audio / transcribe_audio / classify_audio
    primary_language,     \* self.primary_language
    secondary_language,   \* self.secondary_language
    enable_post_process,  \* self.enable_post_process
    max_transcription_attempts, \* global MAX_TRANSCRIPTION_ATTEMPTS (fast mode lowers it)
    enhanced_file,        \* local enhanced_file of transcribe_audio
    attempts,             \* calls of _transcribe_with_language made by this run
    result,               \* local result of transcribe_audio
    looks_musical,        \* local looks_musical of transcribe_audio ("unset" before)
    post_calls,           \* calls of the LLM correction service made by this run
    correction_response,  \* answer of the LLM correction service ("none" before the call)
    transcript_text,      \* transcript handed to classify_audio
    llm_response,         \* answer of the LLM classifier ("none" before the call)
    llm_calls,            \* calls of the LLM classifier made by this classification
    audio_type,           \* category returned by classify_audio ("none" before)
    acoustic_verdict,     \* verdict of _is_instrumental_music seen by classify_audio
    acoustic_features,    \* <<signals>> the verdict of classify_audio was computed from
    classification_result,\* local classification_result of classify_audio ("none" before)
    f_result,             \* argument result of a direct filter call
    f_prompt,             \* argument prompt of a direct filter call
    f_return,             \* value returned by a direct filter call
    enable_enhancement,   \* global ENABLE_AUDIO_ENHANCEMENT (fast mode turns it off)
    file_path,            \* the file handed to analyze_audio
    converted_path,       \* local converted_path of analyze_audio
    preclean_file,        \* local preclean_file of _enhance_audio_for_transcription
    vocals_file,          \* local vocals_file of _enhance_audio_for_transcription
    final_vocals_file,    \* local final_vocals_file of _enhance_audio_for_transcription
    returned,             \* path returned by _enhance_audio_for_transcription
    enh_raised,           \* an exception left _enhance_audio_for_transcription
    files,                \* paths that exist in the file system
    ops,                  \* file operations made by this run: [op, path]
    stages,               \* stages of the enhancement run so far: [stage, outcome]
    folder,               \* names of the files in the folder of a batch
    user_files,           \* names of the files the user put into the folder
    batch_files,          \* local files of analyze_all_files
    batch_index,          \* position of the loop of analyze_all_files in files
    results,              \* local results of analyze_all_files: names of the files analysed
    batch_return,         \* list returned by analyze_all_files
    analysed,             \* names of all files handed to analyze_audio so far
    batch_runs            \* batch runs over the folder so far

vars ==
    <<pc, primary_language, secondary_language, enable_post_process,
      max_transcription_attempts,
      enhanced_file, attempts, result, looks_musical, post_calls,
      correction_response,
      transcript_text, llm_response, llm_calls, audio_type, acoustic_verdict,
      acoustic_features, classification_result,
      f_result, f_prompt, f_return,
      enable_enhancement, file_path, converted_path, preclean_file, vocals_file,
      final_vocals_file, returned, enh_raised, files, ops, stages,
      folder, user_files, batch_files, batch_index, results, batch_return,
      analysed, batch_runs>>

config_vars ==
    <<primary_language, secondary_language, enable_post_process,
      max_transcription_attempts>>
transcribe_vars ==
    <<enhanced_file, attempts, result, looks_musical, post_calls, correction_response>>
classify_vars ==
    <<transcript_text, llm_response, llm_calls, audio_type, acoustic_verdict,
      acoustic_features, classification_result>>
filter_vars == <<f_result, f_prompt, f_return>>
enhance_vars ==
    <<enable_enhancement, file_path, converted_path, preclean_file, vocals_file,
      final_vocals_file, returned, enh_raised, files, ops, stages>>
batch_vars ==
    <<folder, user_files, batch_files, batch_index, results, batch_return,
      analysed, batch_runs>>

\* ------------------------------------------------------------------------
\* Acoustic verdict
\* ------------------------------------------------------------------------
BoolToInt(b) == IF b THEN 1 ELSE 0

\* a Python bool held in a local that starts unbound ("unset")
PyBool(b) == IF b THEN "True" ELSE "False"

\* variant: the onset activity is left out of the score
AcousticScore_NoOnset(a) ==
    BoolToInt(a.rhythmic) + BoolToInt(a.harmonic) + BoolToInt(a.non_flat)

\* score = sum([rhythmic, harmonic, non_flat, onset_active])
AcousticScore(a) ==
    BoolToInt(a.rhythmic) + BoolToInt(a.harmonic)
        + BoolToInt(a.non_flat) + BoolToInt(a.onset_active)

\* variant: three of the four signals are required
IsInstrumentalMusic_ThreeSignals(a) ==
    IF ~a.ok THEN FALSE ELSE AcousticScore(a) >= 3

\* _is_instrumental_music(file_path): score of the four signals, False on any failure
IsInstrumentalMusic(a) ==
    IF ~a.ok THEN FALSE ELSE AcousticScore(a) >= 2

\* ------------------------------------------------------------------------
\* transcribe_audio
\* ------------------------------------------------------------------------
\* variant: the except branch returns the text of the error
TranscribeWithLanguage_ErrorText(o) ==
    IF o.kind = "ok" THEN Strip(o.text) ELSE <<52, 48, 51>>

\* _transcribe_with_language: the stripped answer, "" on any exception.
\* Under debug the function also prints the filtered text; what it returns
\* is the unfiltered one.
TranscribeWithLanguage(o) ==
    IF o.kind = "ok" THEN Strip(o.text) ELSE <<>>

\* variant: a candidate of equal length replaces the retained result
KeepLonger_OnTie(cur, candidate) ==
    IF Len(candidate) >= Len(cur) THEN candidate ELSE cur

\* if len(candidate) > len(result): result = candidate
KeepLonger(cur, candidate) ==
    IF Len(candidate) > Len(cur) THEN candidate ELSE cur

\* if len(result) < MIN_RESULT_LENGTH_FOR_ALT_LANG
NeedsAltLanguage(r) == Len(r) < MIN_RESULT_LENGTH_FOR_ALT_LANG

\* if len(result) < MIN_RESULT_LENGTH_FOR_MUSIC_PROMPT
NeedsMusicPrompt(r) == Len(r) < MIN_RESULT_LENGTH_FOR_MUSIC_PROMPT

\* language passed by the last music-prompt attempt
FourthAttemptLanguage == "en"

Attempt(n, language, prompt, o) ==
    [n |-> n, file |-> enhanced_file, language |-> language, prompt |-> prompt,
     kind |-> o.kind, text |-> TranscribeWithLanguage(o)]

\* enhanced_file = self._enhance_audio_for_transcription(file_path)
TranscribeStart ==
    /\ pc = "transcribe"
    /\ IF enable_enhancement
       THEN \E f \in EnhancedFiles : enhanced_file' = f
       ELSE enhanced_file' = "input"
    /\ pc' = "attempt1"
    /\ UNCHANGED <<config_vars, attempts, result, looks_musical, post_calls,
                   correction_response,
                   classify_vars, filter_vars, enhance_vars,
                   batch_vars>>

\* attempt 1: primary language, strict prompt
Attempt1 ==
    /\ pc = "attempt1"
    /\ \E o \in ServiceOutcomes :
        LET a == Attempt(1, primary_language, "TRANSCRIPTION_PROMPT", o)
        IN  /\ attempts' = Append(attempts, a)
            /\ result' = a.text
            /\ pc' = IF NeedsAltLanguage(a.text) THEN "attempt2" ELSE "gate"
    /\ UNCHANGED <<config_vars, enhanced_file, looks_musical, post_calls,
                   correction_response,
                   classify_vars, filter_vars, enhance_vars,
                   batch_vars>>

\* attempt 2: automatic language, strict prompt
Attempt2 ==
    /\ pc = "attempt2"
    /\ \E o \in ServiceOutcomes :
        LET a == Attempt(2, "None", "TRANSCRIPTION_PROMPT", o)
        IN  /\ attempts' = Append(attempts, a)
            /\ result' = KeepLonger(result, a.text)
            /\ pc' = "gate"
    /\ UNCHANGED <<config_vars, enhanced_file, looks_musical, post_calls,
                   correction_response,
                   classify_vars, filter_vars, enhance_vars,
                   batch_vars>>

\* variant: the gate does not consult the acoustic verdict
PcAfterGate_IgnoreVerdict(r, musical) ==
    IF Len(r) < MIN_RESULT_LENGTH_FOR_MUSIC_PROMPT THEN "attempt3" ELSE "filter"

\* the gate of the music-prompt attempts
PcAfterGate(r, musical) ==
    IF NeedsMusicPrompt(r) /\ musical THEN "attempt3" ELSE "filter"

MusicGate ==
    /\ pc = "gate"
    /\ IF NeedsMusicPrompt(result)
       THEN \E a \in AcousticOutcomes :
                /\ looks_musical' = PyBool(IsInstrumentalMusic(a))
                /\ pc' = PcAfterGate(result, IsInstrumentalMusic(a))
       ELSE /\ looks_musical' = looks_musical
            /\ pc' = "filter"
    /\ UNCHANGED <<config_vars, enhanced_file, attempts, result, post_calls,
                   correction_response,
                   classify_vars, filter_vars, enhance_vars,
                   batch_vars>>

PcAfterAttempt3(r) == IF NeedsMusicPrompt(r) THEN "attempt4" ELSE "filter"

\* attempt 3: automatic language, music prompt
Attempt3 ==
    /\ pc = "attempt3"
    /\ \E o \in ServiceOutcomes :
        LET a == Attempt(3, "None", "MUSIC_TRANSCRIPTION_PROMPT", o)
        IN  /\ attempts' = Append(attempts, a)
            /\ result' = KeepLonger(result, a.text)
            /\ pc' = PcAfterAttempt3(KeepLonger(result, a.text))
    /\ UNCHANGED <<config_vars, enhanced_file, looks_musical, post_calls,
                   correction_response,
                   classify_vars, filter_vars, enhance_vars,
                   batch_vars>>

\* variant: the last attempt is retried
PcAfterAttempt4_Retry == "attempt4"

PcAfterAttempt4 == "filter"

\* attempt 4: "en", music prompt
Attempt4 ==
    /\ pc = "attempt4"
    /\ \E o \in ServiceOutcomes :
        LET a == Attempt(4, FourthAttemptLanguage, "MUSIC_TRANSCRIPTION_PROMPT", o)
        IN  /\ attempts' = Append(attempts, a)
            /\ result' = KeepLonger(result, a.text)
            /\ pc' = PcAfterAttempt4
    /\ UNCHANGED <<config_vars, enhanced_file, looks_musical, post_calls,
                   correction_response,
                   classify_vars, filter_vars, enhance_vars,
                   batch_vars>>


\* ------------------------------------------------------------------------
\* Post-processing
\* ------------------------------------------------------------------------
\* Regular expressions of _polish_punctuation_ru as sequences of items:
\* lit (literal, IGNORECASE), cls (one character of a set, IGNORECASE),
\* ws+ (\s+), ws* (\s*), opt (optional character), wb (\b), bol (^),
\* ceol ((,|$)).  No item needs backtracking: every \s+ / \s* is followed by
\* a character that is not white space.
Item(k, w) == [k |-> k, w |-> w]

W_ne == <<1085, 1077>>
W_govori == <<1075, 1086, 1074, 1086, 1088, 1080>>
W_mne == <<1084, 1085, 1077>>
W_ne_govori_net == <<1085, 1077, 32, 1075, 1086, 1074, 1086, 1088, 1080, 32, 1085, 1077, 1090>>
W_ch == <<1095>>
W_yo_ye == <<1105, 1077>>
W_ty == <<1090, 1099>>
W_gonish == <<1075, 1086, 1085, 1080, 1096, 1100>>
W_snova == <<1089, 1085, 1086, 1074, 1072>>
W_mozg == <<1084, 1086, 1079, 1075>>
W_vynosish == <<1074, 1099, 1085, 1086, 1089, 1080, 1096, 1100>>
W_pozvoni == <<1055, 1086, 1079, 1074, 1086, 1085, 1080>>

\* ч[ёе]\s+ты\s+гонишь
P_che_ty_gonish ==
    <<Item("lit", W_ch), Item("cls", W_yo_ye), Item("ws+", <<>>), Item("lit", W_ty),
      Item("ws+", <<>>), Item("lit", W_gonish)>>

\* снова\s+мозг\s+мне\s+выносишь
P_snova_mozg ==
    <<Item("lit", W_snova), Item("ws+", <<>>), Item("lit", W_mozg), Item("ws+", <<>>),
      Item("lit", W_mne), Item("ws+", <<>>), Item("lit", W_vynosish)>>

\* the substitutions in the order the source applies them; a match is replaced
\* by pre, then the text matched by items g1..g2 (none when g1 = 0), then post
PolishRules ==
    << [pat |-> <<Item("wb", <<>>), Item("lit", W_ne), Item("ws+", <<>>),
                  Item("lit", W_govori), Item("ws+", <<>>), Item("lit", W_mne),
                  Item("wb", <<>>)>>,
        pre |-> W_ne_govori_net, g1 |-> 0, g2 |-> 0, post |-> <<>>],
       [pat |-> <<Item("lit", <<44>>), Item("ws*", <<>>)>> \o P_che_ty_gonish,
        pre |-> <<46, 32>>, g1 |-> 3, g2 |-> 8, post |-> <<>>],
       [pat |-> <<Item("lit", <<44>>), Item("ws*", <<>>)>> \o P_snova_mozg,
        pre |-> <<46, 32>>, g1 |-> 3, g2 |-> 9, post |-> <<>>],
       [pat |-> <<Item("wb", <<>>)>> \o P_che_ty_gonish \o <<Item("opt", <<46>>)>>,
        pre |-> <<>>, g1 |-> 2, g2 |-> 7, post |-> <<63>>],
       [pat |-> <<Item("bol", <<>>), Item("lit", W_pozvoni), Item("ws+", <<>>),
                  Item("lit", W_mne), Item("ceol", <<>>)>>,
        pre |-> <<>>, g1 |-> 2, g2 |-> 4, post |-> <<46>>],
       [pat |-> <<Item("ws+", <<>>)>>,
        pre |-> <<32>>, g1 |-> 0, g2 |-> 0, post |-> <<>>],
       [pat |-> <<Item("ws+", <<>>), Item("cls", <<44, 46, 33, 63>>)>>,
        pre |-> <<>>, g1 |-> 2, g2 |-> 2, post |-> <<>>] >>

\* first index >= i that is not white space (Len(s) + 1 when there is none)
SkipSpaces(s, i) ==
    IF \A j \in i..Len(s) : IsSpace(s[j]) THEN (IF i > Len(s) THEN i ELSE Len(s) + 1)
    ELSE CHOOSE j \in i..Len(s) : ~IsSpace(s[j]) /\ \A m \in i..(j - 1) : IsSpace(s[m])

IsWordAt(s, i) == i >= 1 /\ i <= Len(s) /\ IsWordChar(s[i])

\* \b between s[i-1] and s[i]
WordBoundary(s, i) == IsWordAt(s, i - 1) # IsWordAt(s, i)

\* index after the match of items k.. of pat at index i of s, 0 when there is none
RECURSIVE MatchEnd(_, _, _, _)
MatchEnd(s, i, pat, k) ==
    IF k > Len(pat) THEN i
    ELSE LET it == pat[k]
             n == Len(it.w)
         IN  CASE it.k = "lit" ->
                    IF i + n - 1 <= Len(s) /\ Lower(SubSeq(s, i, i + n - 1)) = Lower(it.w)
                    THEN MatchEnd(s, i + n, pat, k + 1) ELSE 0
               [] it.k = "cls" ->
                    IF i <= Len(s) /\ LowerChar(s[i]) \in SeqToSet(it.w)
                    THEN MatchEnd(s, i + 1, pat, k + 1) ELSE 0
               [] it.k = "ws+" ->
                    IF SkipSpaces(s, i) > i
                    THEN MatchEnd(s, SkipSpaces(s, i), pat, k + 1) ELSE 0
               [] it.k = "ws*" -> MatchEnd(s, SkipSpaces(s, i), pat, k + 1)
               [] it.k = "opt" ->
                    IF i <= Len(s) /\ s[i] \in SeqToSet(it.w)
                    THEN MatchEnd(s, i + 1, pat, k + 1)
                    ELSE MatchEnd(s, i, pat, k + 1)
               [] it.k = "wb" ->
                    IF WordBoundary(s, i) THEN MatchEnd(s, i, pat, k + 1) ELSE 0
               [] it.k = "bol" ->
                    IF i = 1 THEN MatchEnd(s, i, pat, k + 1) ELSE 0
               [] it.k = "ceol" ->
                    IF i <= Len(s) /\ s[i] = 44 THEN MatchEnd(s, i + 1, pat, k + 1)
                    ELSE IF i = Len(s) + 1 \/ (i = Len(s) /\ s[i] = 10)
                         THEN MatchEnd(s, i, pat, k + 1) ELSE 0

\* the replacement of the match of rule at index i
Replacement(s, i, rule) ==
    LET gs == MatchEnd(s, i, SubSeq(rule.pat, 1, rule.g1 - 1), 1)
        ge == MatchEnd(s, i, SubSeq(rule.pat, 1, rule.g2), 1)
    IN  rule.pre \o (IF rule.g1 = 0 THEN <<>> ELSE SubSeq(s, gs, ge - 1)) \o rule.post

\* re.sub(pattern, replacement, s): leftmost matches, left to right
RECURSIVE SubFrom(_, _, _)
SubFrom(s, i, rule) ==
    IF i > Len(s) THEN <<>>
    ELSE LET e == MatchEnd(s, i, rule.pat, 1)
         IN  IF e > i THEN Replacement(s, i, rule) \o SubFrom(s, e, rule)
             ELSE <<s[i]>> \o SubFrom(s, i + 1, rule)

RECURSIVE ApplyRules(_, _)
ApplyRules(s, k) ==
    IF k > Len(PolishRules) THEN s
    ELSE ApplyRules(SubFrom(s, 1, PolishRules[k]), k + 1)

\* _polish_punctuation_ru(text)
PolishPunctuationRu(text) == Strip(ApplyRules(Strip(text), 1))

\* answers of the LLM correction service
CorrectedSample ==
    <<32, 32, 1055, 1086, 1079, 1074, 1086, 1085, 1080, 32, 1084, 1085, 1077, 32, 44,
      32, 1085, 1077, 32, 1075, 1086, 1074, 1086, 1088, 1080, 32, 1084, 1085, 1077,
      32, 44, 32, 32, 1095, 1105, 32, 1090, 1099, 32, 1075, 1086, 1085, 1080, 1096,
      1100, 46, 32, 32>>

CorrectionOutcomes ==
    {[kind |-> "ok", text |-> CorrectedSample],
     [kind |-> "ok", text |-> HelloPadded],
     [kind |-> "error", text |-> <<>>]}

\* _post_process_transcription(text) given the outcome of the correction call
PostProcessTranscription(text, primary, c) ==
    IF text = <<>> \/ Len(Strip(text)) < MIN_TEXT_LENGTH_FOR_POST_PROCESS THEN text
    ELSE IF c.kind # "ok" THEN text
    ELSE IF primary = "ru" THEN PolishPunctuationRu(Strip(c.text))
    ELSE Strip(c.text)

NoCorrection == [kind |-> "none", text |-> <<>>]

\* variant: the guard does not read the enable flag
WantsPostProcess_IgnoreFlag(enabled, r) ==
    r # <<>> /\ Len(Strip(r)) > MIN_TEXT_LENGTH_FOR_POST_PROCESS

\* the guard of the post-processing step in transcribe_audio
WantsPostProcess(enabled, r) ==
    enabled /\ r # <<>> /\ Len(Strip(r)) > MIN_TEXT_LENGTH_FOR_POST_PROCESS

\* variant: the selected text is returned as it is
FinalSelection_Unfiltered(r) == r

\* self._filter_prompt_from_result(result, strict_prompt)
FinalSelection(r) == FilterPromptFromResult(r, TRANSCRIPTION_PROMPT)

\* result = self._filter_prompt_from_result(result, strict_prompt)
FinalFilter ==
    /\ pc = "filter"
    /\ result' = FinalSelection(result)
    /\ pc' = IF WantsPostProcess(enable_post_process, result') THEN "post" ELSE "return"
    /\ UNCHANGED <<config_vars, enhanced_file, attempts, looks_musical, post_calls,
                   correction_response,
                   classify_vars, filter_vars, enhance_vars,
                   batch_vars>>

\* result = self._post_process_transcription(result, debug)
PostProcess ==
    /\ pc = "post"
    /\ \E c \in CorrectionOutcomes :
        /\ result' = PostProcessTranscription(result, primary_language, c)
        /\ correction_response' =
            IF result = <<>> \/ Len(Strip(result)) < MIN_TEXT_LENGTH_FOR_POST_PROCESS
            THEN correction_response ELSE c
    /\ post_calls' =
        IF result = <<>> \/ Len(Strip(result)) < MIN_TEXT_LENGTH_FOR_POST_PROCESS
        THEN post_calls ELSE post_calls + 1
    /\ pc' = "return"
    /\ UNCHANGED <<config_vars, enhanced_file, attempts, looks_musical,
                   classify_vars, filter_vars, enhance_vars,
                   batch_vars>>

\* return result; analyze_audio passes it on as transcript_text.  The
\* attempts are locals of transcribe_audio and end with it.
TranscribeReturn ==
    /\ pc = "return"
    /\ transcript_text' = result
    /\ attempts' = <<>>
    /\ pc' = "classify"
    /\ UNCHANGED <<config_vars, enhanced_file, result, looks_musical, post_calls,
                   correction_response,
                   llm_response, llm_calls, audio_type, acoustic_verdict,
                   acoustic_features, classification_result, filter_vars, enhance_vars,
                   batch_vars>>


\* ------------------------------------------------------------------------
\* classify_audio
\* ------------------------------------------------------------------------
\* the alternatives of the repeated-syllable patterns:
\* (la)+ (na)+ (da)+ (ba)+ (ah|aah|aaa)+ (oh|ooh|ooo)+ (yeah|yea)+
VocalPatterns ==
    { {<<108, 97>>}, {<<110, 97>>}, {<<100, 97>>}, {<<98, 97>>},
      {<<97, 104>>, <<97, 97, 104>>, <<97, 97, 97>>},
      {<<111, 104>>, <<111, 111, 104>>, <<111, 111, 111>>},
      {<<121, 101, 97, 104>>, <<121, 101, 97>>} }

\* w from index i on is a concatenation of alternatives
RECURSIVE ConcatFrom(_, _, _)
ConcatFrom(w, i, alts) ==
    \/ i = Len(w) + 1
    \/ \E a \in alts :
        /\ i + Len(a) - 1 <= Len(w)
        /\ SubSeq(w, i, i + Len(a) - 1) = a
        /\ ConcatFrom(w, i + Len(a), alts)

\* re.search(r"\b(a1|a2|..)+\b", t): both ends of the match are word
\* boundaries and the match has word characters only, so the match is a
\* whole maximal run of word characters
SearchVocalPattern(t, alts) ==
    LET runs == FindAll(t, "word")
    IN  \E k \in 1..Len(runs) : ConcatFrom(runs[k], 1, alts)

\* _looks_like_vocalizations(text)
LooksLikeVocalizations(text) ==
    IF text = <<>> THEN FALSE
    ELSE LET t == Lower(text)
             words == FindAll(t, "lower_letter")
             half == Len(words) \div 2
         IN  \/ \E alts \in VocalPatterns : SearchVocalPattern(t, alts)
             \/ /\ JoinedLen(words) <= 40
                /\ Cardinality(SeqToSet(words)) <= (IF half > 1 THEN half ELSE 1)

\* variant: the short-text checks do not ask the vocalization rule
LooksLikeNoise_NoVocalCheck(text) ==
    IF text = <<>> THEN FALSE
    ELSE LET t == Lower(Strip(text))
             words == FindAll(t, "lower_letter")
         IN  \/ /\ Len(t) <= 3
                /\ ~(\E i \in 1..Len(t) : t[i] = 32)
                /\ FullMatchClassPlus(t, "non_word_or_dash") \/ FullMatchClassPlus(t, "lower_letter")
             \/ FullMatchClassPlus(t, "sibilant") /\ Len(t) <= 10
             \/ /\ Len(words) <= 1
                /\ Len(t) <= 4 \/ (words # <<>> /\ Len(words[1]) <= 3)

\* _looks_like_noise(text)
LooksLikeNoise(text) ==
    IF text = <<>> THEN FALSE
    ELSE LET t == Lower(Strip(text))
             words == FindAll(t, "lower_letter")
         IN  \/ /\ Len(t) <= 3
                /\ ~(\E i \in 1..Len(t) : t[i] = 32)
                /\ FullMatchClassPlus(t, "non_word_or_dash") \/ FullMatchClassPlus(t, "lower_letter")
                /\ ~LooksLikeVocalizations(t)
             \/ FullMatchClassPlus(t, "sibilant") /\ Len(t) <= 10
             \/ /\ Len(words) <= 1
                /\ Len(t) <= 4 \/ (words # <<>> /\ Len(words[1]) <= 3)
                /\ ~LooksLikeVocalizations(t)

\* answers of the LLM classifier: the call raises; the content is a JSON
\* object with the given "classification" ("missing" when the key is absent);
\* the content is JSON but no object; the content is no JSON
NonJsonTexts ==
    { <<77, 117, 115, 105, 99>>,
      <<73, 116, 32, 105, 115, 32, 115, 112, 101, 101, 99, 104, 46>>,
      <<109, 117, 115, 105, 99, 32, 111, 114, 32, 115, 112, 101, 101, 99, 104, 63>>,
      <<73, 32, 99, 97, 110, 110, 111, 116, 32, 116, 101, 108, 108>>,
      <<1096, 1091, 1084>>,
      <<1056, 1077, 1095, 1100>> }

JsonClassifications == {"music", "speech", "noise", "Music", "unknown", "missing"}

LLMOutcomes ==
    {[kind |-> "error", classification |-> "missing", text |-> <<>>],
     [kind |-> "json_other", classification |-> "missing", text |-> <<>>]}
        \cup {[kind |-> "json_object", classification |-> c, text |-> <<>>] :
                c \in JsonClassifications}
        \cup {[kind |-> "text", classification |-> "missing", text |-> t] :
                t \in NonJsonTexts}

NoLLMResponse == [kind |-> "none", classification |-> "missing", text |-> <<>>]

W_music == <<109, 117, 115, 105, 99>>
W_speech == <<115, 112, 101, 101, 99, 104>>
W_muzyka == <<1084, 1091, 1079, 1099, 1082, 1072>>
W_rech == <<1088, 1077, 1095, 1100>>

\* variant: the "classification" of a JSON object is returned as it is
ClassifyWithAI_PassThrough(r) ==
    IF r.kind = "json_object" /\ r.classification # "missing"
    THEN r.classification
    ELSE "noise"

\* _classify_with_ai(transcript_text) given the answer of the LLM
ClassifyWithAI(r) ==
    IF r.kind = "error" THEN "noise"
    ELSE IF r.kind = "json_object"
    THEN LET classification ==
                 IF r.classification = "missing" THEN "noise" ELSE r.classification
         IN  IF classification = "music" THEN "music"
             ELSE IF classification = "speech" THEN "speech"
             ELSE "noise"
    ELSE IF r.kind = "json_other" THEN "noise"
    ELSE LET result_lower == Lower(Strip(r.text))
         IN  IF Contains(result_lower, W_music) \/ Contains(result_lower, W_muzyka)
             THEN "music"
             ELSE IF Contains(result_lower, W_speech) \/ Contains(result_lower, W_rech)
             THEN "speech"
             ELSE "noise"

\* variant: an empty transcript is transcribed again (if not transcript_text)
NeedsTranscription_Falsy(t) == t = NoneText \/ t = <<>>

\* if transcript_text is None
NeedsTranscription(t) == t = NoneText

\* if transcript_text is None: transcribe with the primary language and filter
ClassifyStart ==
    /\ pc = "classify"
    /\ IF NeedsTranscription(transcript_text)
       THEN \E o \in ServiceOutcomes :
                /\ attempts' = Append(attempts,
                        [n |-> 0, file |-> "input", language |-> primary_language,
                         prompt |-> "TRANSCRIPTION_PROMPT", kind |-> o.kind,
                         text |-> TranscribeWithLanguage(o)])
                /\ transcript_text' =
                        FilterPromptFromResult(TranscribeWithLanguage(o),
                                               TRANSCRIPTION_PROMPT)
       ELSE UNCHANGED <<attempts, transcript_text>>
    /\ pc' = "heuristics"
    /\ UNCHANGED <<config_vars, enhanced_file, result, looks_musical, post_calls,
                   correction_response,
                   llm_response, llm_calls, audio_type, acoustic_verdict,
                   acoustic_features, classification_result, filter_vars, enhance_vars,
                   batch_vars>>

\* the lexical heuristics and the empty-transcript branch
ClassifyHeuristics ==
    /\ pc = "heuristics"
    /\ IF transcript_text # <<>> /\ LooksLikeNoise(transcript_text)
       THEN /\ audio_type' = "noise"
            /\ pc' = "done"
            /\ UNCHANGED <<acoustic_verdict, acoustic_features>>
       ELSE IF transcript_text # <<>> /\ LooksLikeVocalizations(transcript_text)
       THEN /\ audio_type' = "music"
            /\ pc' = "done"
            /\ UNCHANGED <<acoustic_verdict, acoustic_features>>
       ELSE IF transcript_text = <<>>
       THEN \E a \in AcousticOutcomes :
                /\ acoustic_features' = <<a>>
                /\ acoustic_verdict' = PyBool(IsInstrumentalMusic(a))
                /\ audio_type' = IF IsInstrumentalMusic(a) THEN "music" ELSE "noise"
                /\ pc' = "done"
       ELSE pc' = "llm" /\ UNCHANGED <<audio_type, acoustic_verdict, acoustic_features>>
    /\ UNCHANGED <<config_vars, transcribe_vars, transcript_text, llm_response,
                   llm_calls, classification_result, filter_vars, enhance_vars,
                   batch_vars>>

\* variant: a noise answer of the LLM is returned whatever the file sounds like
OverriddenCategory_Never(c, musical) == c

\* if classification_result == "шум" and self._is_instrumental_music(file_path):
\* "музыка", else classification_result
OverriddenCategory(c, musical) ==
    IF c = "noise" /\ musical THEN "music" ELSE c

\* LLM arbitration and the acoustic override of a noise answer
ClassifyLLM ==
    /\ pc = "llm"
    /\ \E r \in LLMOutcomes :
        /\ llm_response' = r
        /\ classification_result' = ClassifyWithAI(r)
        /\ IF ClassifyWithAI(r) = "noise"
           THEN \E a \in AcousticOutcomes :
                    /\ acoustic_features' = <<a>>
                    /\ acoustic_verdict' = PyBool(IsInstrumentalMusic(a))
                    /\ audio_type' =
                            OverriddenCategory(ClassifyWithAI(r), IsInstrumentalMusic(a))
           ELSE /\ audio_type' = ClassifyWithAI(r)
                /\ UNCHANGED <<acoustic_verdict, acoustic_features>>
    /\ llm_calls' = llm_calls + 1
    /\ pc' = "done"
    /\ UNCHANGED <<config_vars, transcribe_vars, transcript_text, filter_vars, enhance_vars,
                   batch_vars>>

\* ------------------------------------------------------------------------
\* A direct call of the filter
\* ------------------------------------------------------------------------
FilterCall ==
    /\ pc = "filter_call"
    /\ f_return' = FilterPromptFromResult(f_result, f_prompt)
    /\ pc' = "filter_done"
    /\ UNCHANGED <<config_vars, transcribe_vars, classify_vars, f_result, f_prompt,
                   enhance_vars, batch_vars>>


\* ------------------------------------------------------------------------
\* Sample texts for the pure functions
\* ------------------------------------------------------------------------
\* A + 6 x a (Cyrillic)
CryingSample ==
    <<1040, 1072, 1072, 1072, 1072, 1072, 1072>>

\* Find me, find me, You can find
FindMeSample ==
    <<70, 105, 110, 100, 32, 109, 101, 44, 32, 102, 105, 110, 100, 32, 109, 101,
      44, 32, 89, 111, 117, 32, 99, 97, 110, 32, 102, 105, 110, 100>>

\* Vsem novichkam, vsem novichkam (Cyrillic)
NovichkamSample ==
    <<1042, 1089, 1077, 1084, 32, 1085, 1086, 1074, 1080, 1095, 1082, 1072,
      1084, 44, 32, 1074, 1089, 1077, 1084, 32, 1085, 1086, 1074, 1080, 1095,
      1082, 1072, 1084>>

\* Privet, kak dela? (Cyrillic)
PrivetSample ==
    <<1055, 1088, 1080, 1074, 1077, 1090, 44, 32, 1082, 1072, 1082, 32, 1076,
      1077, 1083, 1072, 63>>

\* "." "-" "a" Cyrillic "a" Cyrillic "sh" "la" "na " "1"
SampleUnits ==
    { <<46>>, <<45>>, <<97>>, <<1072>>, <<1096>>, <<108, 97>>, <<110, 97, 32>>, <<49>> }

\* runs of 10 and of 11 Cyrillic "sh", around the length limit of the
\* sibilant rule
SibilantRuns == {Rep(<<1096>>, 10), Rep(<<1096>>, 11)}

SampleTexts ==
    {Rep(u, k) : u \in SampleUnits, k \in 1..MaxRep}
        \cup SibilantRuns
        \cup { <<>>, <<32, 32>>, Hello, HelloPadded, BracketNoise, CryingSample,
               FindMeSample, NovichkamSample, PrivetSample,
               Lyrics(MIN_RESULT_LENGTH_FOR_ALT_LANG),
               Lyrics(MIN_RESULT_LENGTH_FOR_MUSIC_PROMPT),
               TRANSCRIPTION_PROMPT, MUSIC_TRANSCRIPTION_PROMPT }

\* transcripts handed to classify_audio by a caller
SampleTranscripts == SampleTexts \ {TRANSCRIPTION_PROMPT, MUSIC_TRANSCRIPTION_PROMPT}

SamplePrompts == { <<>>, TRANSCRIPTION_PROMPT, MUSIC_TRANSCRIPTION_PROMPT }

\* ------------------------------------------------------------------------
\* Files of one analyze_audio run: conversion, enhancement, removal
\* ------------------------------------------------------------------------
\* A path is a directory, a stem (its parts in order) and a suffix.
SKIP_DEMUCS_ON_ERROR == FALSE

NoPath == [dir |-> "", stem |-> <<>>, ext |-> ""]

\* p.with_name(f"{p.stem}{tail}{ext}")
WithName(p, tail, ext) == [dir |-> p.dir, stem |-> Append(p.stem, tail), ext |-> ext]

\* tmp = p.with_name(f"{p.stem}_preclean.wav")
PrecleanPath(p) == WithName(p, "_preclean", ".wav")

\* orig_path.with_name(f"{orig_path.stem}_vocals{vocals_file.suffix}")
FinalVocalsPath(p, suffix) == WithName(p, "_vocals", suffix)

\* variant: the masked signal is written over the file it was read from
LibrosaOutputPath_InPlace(p) == p

\* temp_file = str(p.with_name(f"{p.stem}_vocals.wav"))
LibrosaOutputPath(p) == WithName(p, "_vocals", ".wav")

\* tempfile.NamedTemporaryFile(suffix='.mp3', delete=False): a fresh name
TempMp3 == [dir |-> "tmp", stem |-> <<"tmpfile">>, ext |-> ".mp3"]

\* Path(tempfile.mkdtemp()): a fresh directory
TempDir == [dir |-> "tmp", stem |-> <<"tmpdir">>, ext |-> ""]

\* the vocal stem Demucs leaves below temp_dir
StemInTempDir(suffix) == [dir |-> "tmpdir", stem |-> <<"vocals">>, ext |-> suffix]

\* what shutil.rmtree(temp_dir) removes
UnderTempDir(fs) == {p \in fs : p = TempDir \/ p.dir = "tmpdir"}

\* files handed to analyze_audio
InputPaths ==
    { [dir |-> "examples", stem |-> <<"song">>, ext |-> ".wav"],
      [dir |-> "examples", stem |-> <<"song">>, ext |-> ".mp3"],
      [dir |-> "examples", stem |-> <<"song", "_vocals">>, ext |-> ".wav"] }

\* outcomes of the collaborators
ConvertOutcomes == {"unavailable", "load_failed", "export_failed", "ok"}
PrecleanOutcomes == {"ok", "failed"}
SeparationOutcomes == {"not_installed", "raise", "no_vocals", "vocals_wav", "vocals_mp3"}
UnlinkOutcomes == {"ok", "failed"}
MoveOutcomes == {"moved", "copied", "failed"}
StepOutcomes == {"ok", "failed"}

Op(op, path) == [op |-> op, path |-> path]
Stage(stage, outcome) == [stage |-> stage, outcome |-> outcome]

\* variant: an error of the separation stage returns the original file
AfterSeparationError_Skip == "passthrough"

\* the except branches of the separation stage: the spectral-mask stage is
\* next unless SKIP_DEMUCS_ON_ERROR
AfterSeparationError ==
    IF SKIP_DEMUCS_ON_ERROR THEN "passthrough" ELSE "spectral_mask"

\* variant: an error of the spectral-mask stage leaves the function
AfterSpectralMaskError_Propagate == "propagate"

\* the except branches of _enhance_with_librosa: return file_path
AfterSpectralMaskError == "passthrough"

\* converted_path = self.convert_audio_format(file_path)
Convert ==
    /\ pc = "convert"
    /\ \E o \in ConvertOutcomes :
        /\ converted_path' = IF o = "ok" THEN TempMp3 ELSE file_path
        /\ files' = IF o \in {"ok", "export_failed"} THEN files \cup {TempMp3} ELSE files
        /\ ops' = IF o \in {"ok", "export_failed"}
                  THEN ops \cup {Op("export", TempMp3)} ELSE ops
    /\ pc' = "enhance"
    /\ UNCHANGED <<config_vars, transcribe_vars, classify_vars, filter_vars, batch_vars,
                   enable_enhancement, file_path, preclean_file, vocals_file,
                   final_vocals_file, returned, enh_raised, stages>>

\* _enhance_audio_for_transcription up to the separation stage: the
\* ENABLE_AUDIO_ENHANCEMENT test and _preclean_for_demucs
EnhanceStart ==
    /\ pc = "enhance"
    /\ IF ~enable_enhancement
       THEN /\ returned' = converted_path
            /\ pc' = "analyze"
            /\ UNCHANGED <<preclean_file, files, ops, stages>>
       ELSE \E o \in PrecleanOutcomes :
            /\ preclean_file' =
                    IF o = "ok" THEN PrecleanPath(converted_path) ELSE converted_path
            /\ files' = IF o = "ok" THEN files \cup {PrecleanPath(converted_path)}
                        ELSE files
            /\ ops' = IF o = "ok" THEN ops \cup {Op("write", PrecleanPath(converted_path))}
                      ELSE ops
            /\ stages' = Append(stages, Stage("preclean", o))
            /\ pc' = "separate"
            /\ UNCHANGED returned
    /\ UNCHANGED <<config_vars, transcribe_vars, classify_vars, filter_vars, batch_vars,
                   enable_enhancement, file_path, converted_path, vocals_file,
                   final_vocals_file, enh_raised>>

\* the separation stage: import of demucs, mkdtemp, separate.main and the
\* search for the vocal stem.  Without a vocal stem the function reaches
\* shutil.rmtree(temp_dir) with the local name shutil unbound (its import sits
\* in the other branch), which raises into the except branch.
Separate ==
    /\ pc = "separate"
    /\ \E o \in SeparationOutcomes :
        /\ stages' = Append(stages, Stage("separation", o))
        /\ CASE o = "not_installed" ->
                    /\ pc' = "spectral_mask"
                    /\ UNCHANGED <<files, ops, vocals_file, returned>>
             [] o \in {"raise", "no_vocals"} ->
                    /\ files' = files \cup {TempDir}
                    /\ ops' = ops \cup {Op("mkdtemp", TempDir)}
                    /\ pc' = IF AfterSeparationError = "passthrough"
                             THEN "analyze" ELSE "spectral_mask"
                    /\ returned' = IF AfterSeparationError = "passthrough"
                                   THEN converted_path ELSE returned
                    /\ UNCHANGED vocals_file
             [] o \in {"vocals_wav", "vocals_mp3"} ->
                    LET stem == StemInTempDir(IF o = "vocals_wav" THEN ".wav" ELSE ".mp3")
                    IN  /\ files' = files \cup {TempDir, stem}
                        /\ ops' = ops \cup {Op("mkdtemp", TempDir), Op("write", stem)}
                        /\ vocals_file' = stem
                        /\ pc' = "relocate"
                        /\ UNCHANGED returned
    /\ UNCHANGED <<config_vars, transcribe_vars, classify_vars, filter_vars, batch_vars,
                   enable_enhancement, file_path, converted_path, preclean_file,
                   final_vocals_file, enh_raised>>

\* the vocal stem is put beside the file: unlink of an older file of that
\* name, shutil.move, shutil.copy2 when the move fails
Relocate ==
    /\ pc = "relocate"
    /\ \E u \in UnlinkOutcomes, m \in MoveOutcomes :
        LET final == FinalVocalsPath(converted_path, vocals_file.ext)
            unlinked == final \in files /\ u = "ok"
            files1 == IF unlinked THEN files \ {final} ELSE files
            ops1 == IF unlinked THEN ops \cup {Op("unlink", final)} ELSE ops
        IN  /\ final_vocals_file' = final
            /\ stages' = Append(stages, Stage("relocation", m))
            /\ CASE m = "moved" ->
                        /\ files' = (files1 \ {vocals_file}) \cup {final}
                        /\ ops' = ops1 \cup {Op("move", vocals_file), Op("write", final)}
                        /\ pc' = "refine"
                        /\ UNCHANGED returned
                 [] m = "copied" ->
                        /\ files' = files1 \cup {final}
                        /\ ops' = ops1 \cup {Op("write", final)}
                        /\ pc' = "refine"
                        /\ UNCHANGED returned
                 [] m = "failed" ->
                        /\ files' = files1
                        /\ ops' = ops1
                        /\ pc' = IF AfterSeparationError = "passthrough"
                                 THEN "analyze" ELSE "spectral_mask"
                        /\ returned' = IF AfterSeparationError = "passthrough"
                                       THEN converted_path ELSE returned
    /\ UNCHANGED <<config_vars, transcribe_vars, classify_vars, filter_vars, batch_vars,
                   enable_enhancement, file_path, converted_path, preclean_file,
                   vocals_file, enh_raised>>

\* _refine_vocals_with_background, _cleanup_vocals_file (both rewrite the
\* vocals file or give up silently), shutil.rmtree(temp_dir), return
Refine ==
    /\ pc = "refine"
    /\ \E r \in StepOutcomes, c \in StepOutcomes, t \in StepOutcomes :
        /\ stages' = stages \o <<Stage("refinement", r), Stage("cleanup", c),
                                 Stage("rmtree", t)>>
        /\ ops' = ops
                \cup (IF r = "ok" \/ c = "ok" THEN {Op("write", final_vocals_file)} ELSE {})
                \cup (IF t = "ok" THEN {Op("rmtree", TempDir)} ELSE {})
        /\ files' = IF t = "ok" THEN files \ UnderTempDir(files) ELSE files
        /\ IF t = "ok"
           THEN pc' = "analyze" /\ returned' = final_vocals_file
           ELSE /\ pc' = IF AfterSeparationError = "passthrough"
                         THEN "analyze" ELSE "spectral_mask"
                /\ returned' = IF AfterSeparationError = "passthrough"
                               THEN converted_path ELSE returned
    /\ UNCHANGED <<config_vars, transcribe_vars, classify_vars, filter_vars, batch_vars,
                   enable_enhancement, file_path, converted_path, preclean_file,
                   vocals_file, final_vocals_file, enh_raised>>

\* _enhance_with_librosa(file_path)
SpectralMask ==
    /\ pc = "spectral_mask"
    /\ \E o \in StepOutcomes :
        /\ stages' = Append(stages, Stage("spectral_mask", o))
        /\ IF o = "ok"
           THEN /\ files' = files \cup {LibrosaOutputPath(converted_path)}
                /\ ops' = ops \cup {Op("write", LibrosaOutputPath(converted_path))}
                /\ returned' = LibrosaOutputPath(converted_path)
                /\ UNCHANGED enh_raised
           ELSE /\ returned' = IF AfterSpectralMaskError = "passthrough"
                               THEN converted_path ELSE NoPath
                /\ enh_raised' = (AfterSpectralMaskError # "passthrough")
                /\ UNCHANGED <<files, ops>>
    /\ pc' = "analyze"
    /\ UNCHANGED <<config_vars, transcribe_vars, classify_vars, filter_vars, batch_vars,
                   enable_enhancement, file_path, converted_path, preclean_file,
                   vocals_file, final_vocals_file>>

\* the rest of transcribe_audio and classify_audio: they open the enhanced
\* file and the converted file for reading only
TranscribeAndClassify ==
    /\ pc = "analyze"
    /\ pc' = "cleanup"
    /\ UNCHANGED <<config_vars, transcribe_vars, classify_vars, filter_vars, enhance_vars,
                   batch_vars>>

\* if converted_path != str(file_path) and os.path.exists(converted_path):
\* os.unlink(converted_path), an OSError being ignored
RemoveConverted ==
    /\ pc = "cleanup"
    /\ IF converted_path # file_path /\ converted_path \in files
       THEN \E o \in UnlinkOutcomes :
                /\ files' = IF o = "ok" THEN files \ {converted_path} ELSE files
                /\ ops' = IF o = "ok" THEN ops \cup {Op("unlink", converted_path)} ELSE ops
       ELSE UNCHANGED <<files, ops>>
    /\ pc' = "end"
    /\ UNCHANGED <<config_vars, transcribe_vars, classify_vars, filter_vars, batch_vars,
                   enable_enhancement, file_path, converted_path, preclean_file,
                   vocals_file, final_vocals_file, returned, enh_raised, stages>>

\* ------------------------------------------------------------------------
\* analyze_all_files: runs of a batch over one folder
\* ------------------------------------------------------------------------
\* File names are sequences of code points.
MaxRuns == 2

\* '.mp3', '.wav', '.m4a', '.flac'
SUPPORTED_AUDIO_FORMATS ==
    { <<46, 109, 112, 51>>, <<46, 119, 97, 118>>, <<46, 109, 52, 97>>, <<46, 102, 108, 97, 99>> }

Tail_vocals == <<95, 118, 111, 99, 97, 108, 115>>
Tail_preclean_wav == <<95, 112, 114, 101, 99, 108, 101, 97, 110, 46, 119, 97, 118>>
Tail_vocals_wav == <<95, 118, 111, 99, 97, 108, 115, 46, 119, 97, 118>>

\* index of the dot that starts the suffix, 0 without a suffix
\* (pathlib: the last dot, unless it opens or closes the name)
SuffixDot(name) ==
    IF \A i \in 1..Len(name) : name[i] # 46 THEN 0
    ELSE LET i == CHOOSE k \in 1..Len(name) :
                    name[k] = 46 /\ \A m \in (k + 1)..Len(name) : name[m] # 46
         IN  IF i > 1 /\ i < Len(name) THEN i ELSE 0

\* Path.suffix
PathSuffix(name) ==
    IF SuffixDot(name) = 0 THEN <<>> ELSE SubSeq(name, SuffixDot(name), Len(name))

\* Path.stem
PathStem(name) ==
    IF SuffixDot(name) = 0 THEN name ELSE SubSeq(name, 1, SuffixDot(name) - 1)

\* s.endswith(t)
EndsWith(s, t) ==
    Len(t) <= Len(s) /\ SubSeq(s, Len(s) - Len(t) + 1, Len(s)) = t

\* p.with_name(f"{p.stem}_preclean.wav")
PrecleanName(name) == PathStem(name) \o Tail_preclean_wav

\* p.with_name(f"{p.stem}_vocals.wav")
VocalsName(name) == PathStem(name) \o Tail_vocals_wav

\* a < b for str
NameLess(a, b) ==
    \E i \in 1..(Len(a) + 1) :
        /\ \A m \in 1..(i - 1) : m <= Len(b) /\ a[m] = b[m]
        /\ IF i > Len(a) THEN i <= Len(b)
           ELSE i <= Len(b) /\ a[i] < b[i]

\* sorted(names)
RECURSIVE SortNames(_)
SortNames(names) ==
    IF names = {} THEN <<>>
    ELSE LET first == CHOOSE x \in names : \A y \in names : x = y \/ NameLess(x, y)
         IN  <<first>> \o SortNames(names \ {first})

\* the tests of the loop of list_audio_files
IsListed(name) ==
    /\ Lower(PathSuffix(name)) \in SUPPORTED_AUDIO_FORMATS
    /\ ~EndsWith(Lower(PathStem(name)), Tail_vocals)

\* list_audio_files(folder) for a folder that exists
ListAudioFiles(names) == SortNames({name \in names : IsListed(name)})

\* a.wav, B.MP3, c.txt
UserFolders ==
    { {<<97, 46, 119, 97, 118>>, <<99, 46, 116, 120, 116>>},
      {<<97, 46, 119, 97, 118>>, <<66, 46, 77, 80, 51>>, <<99, 46, 116, 120, 116>>} }

\* analyze_audio on one file of the batch: it raises (file_path.stat() on a
\* file that has gone), or it returns, having written nothing into the
\* folder (the file was converted to a temp MP3) or having left the
\* precleaned file and the vocals file beside the file
AnalyzeOutcomes == {"raise", "converted", "in_place"}

\* files = self.list_audio_files(folder); FileNotFoundError ends the batch
BatchStart ==
    /\ pc = "batch"
    /\ \E exists \in BOOLEAN :
        /\ batch_files' = IF exists THEN ListAudioFiles(folder) ELSE <<>>
        /\ pc' = IF exists THEN "batch_loop" ELSE "batch_done"
    /\ batch_return' = <<>>
    /\ batch_index' = 1
    /\ results' = <<>>
    /\ batch_runs' = batch_runs + 1
    /\ UNCHANGED <<config_vars, transcribe_vars, classify_vars, filter_vars,
                   enhance_vars, folder, user_files, analysed>>

\* one turn of the loop: result = self.analyze_audio(file_path, debug); the
\* try of analyze_all_files encloses the whole loop, so an exception ends
\* the loop in "return []"
BatchAnalyze ==
    /\ pc = "batch_loop"
    /\ batch_index <= Len(batch_files)
    /\ \E o \in AnalyzeOutcomes :
        LET name == batch_files[batch_index]
        IN  /\ analysed' = analysed \cup {name}
            /\ IF o = "raise"
               THEN /\ batch_return' = <<>>
                    /\ pc' = "batch_done"
                    /\ UNCHANGED <<batch_index, results, folder>>
               ELSE /\ results' = Append(results, name)
                    /\ batch_index' = batch_index + 1
                    /\ folder' = IF o = "in_place"
                                 THEN folder \cup {PrecleanName(name), VocalsName(name)}
                                 ELSE folder
                    /\ UNCHANGED <<pc, batch_return>>
    /\ UNCHANGED <<config_vars, transcribe_vars, classify_vars, filter_vars,
                   enhance_vars, user_files, batch_files, batch_runs>>

\* return results
BatchReturn ==
    /\ pc = "batch_loop"
    /\ batch_index > Len(batch_files)
    /\ batch_return' = results
    /\ pc' = "batch_done"
    /\ UNCHANGED <<config_vars, transcribe_vars, classify_vars, filter_vars,
                   enhance_vars, folder, user_files, batch_files, batch_index,
                   results, analysed, batch_runs>>

\* the program is started again on the same folder
BatchAgain ==
    /\ pc = "batch_done"
    /\ batch_runs < MaxRuns
    /\ pc' = "batch"
    /\ UNCHANGED <<config_vars, transcribe_vars, classify_vars, filter_vars,
                   enhance_vars, batch_vars>>

\* ------------------------------------------------------------------------
\* Specifications
\* ------------------------------------------------------------------------
\* AudioAnalyzer(primary_language, secondary_language, enable_post_process)
Configs ==
    { <<DEFAULT_PRIMARY_LANGUAGE, DEFAULT_SECONDARY_LANGUAGE, TRUE>>,
      <<DEFAULT_PRIMARY_LANGUAGE, "fr", FALSE>>,
      <<"en", "fr", TRUE>>,
      <<"en", DEFAULT_SECONDARY_LANGUAGE, FALSE>> }

InitConfig ==
    \E c \in Configs :
        /\ primary_language = c[1]
        /\ secondary_language = c[2]
        /\ enable_post_process = c[3]

InitLocals ==
    /\ enhanced_file = "input"
    /\ attempts = <<>>
    /\ result = <<>>
    /\ looks_musical = "unset"
    /\ post_calls = 0
    /\ correction_response = NoCorrection
    /\ llm_response = NoLLMResponse
    /\ llm_calls = 0
    /\ audio_type = "none"
    /\ acoustic_verdict = "unset"
    /\ acoustic_features = <<>>
    /\ classification_result = "none"
    /\ f_result = <<>>
    /\ f_prompt = <<>>
    /\ f_return = NoneText

\* main: the two globals that --fast-mode rewrites
ModeOf(fast_mode) ==
    /\ enable_enhancement = ~fast_mode
    /\ max_transcription_attempts =
            IF fast_mode THEN 2 ELSE MAX_TRANSCRIPTION_ATTEMPTS

\* the batch variables of a run on one file
BatchIdle ==
    /\ folder = {}
    /\ user_files = {}
    /\ batch_files = <<>>
    /\ batch_index = 1
    /\ results = <<>>
    /\ batch_return = <<>>
    /\ analysed = {}
    /\ batch_runs = 0

\* the file variables of a run that looks at the texts only
EnhanceIdle ==
    /\ BatchIdle
    /\ file_path = NoPath
    /\ converted_path = NoPath
    /\ preclean_file = NoPath
    /\ vocals_file = NoPath
    /\ final_vocals_file = NoPath
    /\ returned = NoPath
    /\ enh_raised = FALSE
    /\ files = {}
    /\ ops = {}
    /\ stages = <<>>

\* analyze_audio on one file: transcribe_audio, then classify_audio
Init ==
    /\ InitConfig
    /\ ModeOf(FALSE)
    /\ InitLocals
    /\ EnhanceIdle
    /\ pc = "transcribe"
    /\ transcript_text = NoneText

Next ==
    \/ TranscribeStart
    \/ Attempt1
    \/ Attempt2
    \/ MusicGate
    \/ Attempt3
    \/ Attempt4
    \/ FinalFilter
    \/ PostProcess
    \/ TranscribeReturn
    \/ ClassifyStart
    \/ ClassifyHeuristics
    \/ ClassifyLLM

Spec == Init /\ [][Next]_vars

\* classify_audio(file_path, transcript_text) called on its own
InitClassify ==
    /\ InitConfig
    /\ ModeOf(FALSE)
    /\ InitLocals
    /\ EnhanceIdle
    /\ pc = "classify"
    /\ transcript_text \in SampleTranscripts \cup {NoneText}

NextClassify ==
    \/ ClassifyStart
    \/ ClassifyHeuristics
    \/ ClassifyLLM

SpecClassify == InitClassify /\ [][NextClassify]_vars

\* _filter_prompt_from_result(result, prompt) called on its own
InitFilter ==
    /\ primary_language = DEFAULT_PRIMARY_LANGUAGE
    /\ secondary_language = DEFAULT_SECONDARY_LANGUAGE
    /\ enable_post_process = FALSE
    /\ enhanced_file = "input"
    /\ attempts = <<>>
    /\ result = <<>>
    /\ looks_musical = "unset"
    /\ post_calls = 0
    /\ correction_response = NoCorrection
    /\ transcript_text = NoneText
    /\ llm_response = NoLLMResponse
    /\ llm_calls = 0
    /\ audio_type = "none"
    /\ acoustic_verdict = "unset"
    /\ acoustic_features = <<>>
    /\ classification_result = "none"
    /\ pc = "filter_call"
    /\ f_result \in SampleTexts
    /\ f_prompt \in SamplePrompts
    /\ f_return = NoneText
    /\ ModeOf(FALSE)
    /\ EnhanceIdle

NextFilter == FilterCall

SpecFilter == InitFilter /\ [][NextFilter]_vars

\* analyze_audio seen from the file system: convert_audio_format, the
\* enhancement chain, the analysis, the removal of the converted file.  An
\* older vocals file may lie beside the input.
InitEnhance ==
    /\ InitConfig
    /\ InitLocals
    /\ pc = "convert"
    /\ transcript_text = NoneText
    /\ \E fast_mode \in BOOLEAN : ModeOf(fast_mode)
    /\ file_path \in InputPaths
    /\ converted_path = NoPath
    /\ preclean_file = NoPath
    /\ vocals_file = NoPath
    /\ final_vocals_file = NoPath
    /\ returned = NoPath
    /\ enh_raised = FALSE
    /\ \E older \in SUBSET {FinalVocalsPath(file_path, ".wav")} :
            files = {file_path} \cup older
    /\ ops = {}
    /\ stages = <<>>
    /\ BatchIdle

NextEnhance ==
    \/ Convert
    \/ EnhanceStart
    \/ Separate
    \/ Relocate
    \/ Refine
    \/ SpectralMask
    \/ TranscribeAndClassify
    \/ RemoveConverted

SpecEnhance == InitEnhance /\ [][NextEnhance]_vars

\* analyze_audio on one file under --fast-mode, default languages
InitFast ==
    /\ primary_language = DEFAULT_PRIMARY_LANGUAGE
    /\ secondary_language = DEFAULT_SECONDARY_LANGUAGE
    /\ enable_post_process \in BOOLEAN
    /\ ModeOf(TRUE)
    /\ InitLocals
    /\ EnhanceIdle
    /\ pc = "transcribe"
    /\ transcript_text = NoneText

SpecFast == InitFast /\ [][Next]_vars

\* analyze_all_files(folder), started MaxRuns times on the same folder
InitBatch ==
    /\ InitConfig
    /\ ModeOf(FALSE)
    /\ InitLocals
    /\ file_path = NoPath
    /\ converted_path = NoPath
    /\ preclean_file = NoPath
    /\ vocals_file = NoPath
    /\ final_vocals_file = NoPath
    /\ returned = NoPath
    /\ enh_raised = FALSE
    /\ files = {}
    /\ ops = {}
    /\ stages = <<>>
    /\ pc = "batch"
    /\ transcript_text = NoneText
    /\ user_files \in UserFolders
    /\ folder = user_files
    /\ batch_files = <<>>
    /\ batch_index = 1
    /\ results = <<>>
    /\ batch_return = <<>>
    /\ analysed = {}
    /\ batch_runs = 0

NextBatch ==
    \/ BatchStart
    \/ BatchAnalyze
    \/ BatchReturn
    \/ BatchAgain

SpecBatch == InitBatch /\ [][NextBatch]_vars

\* ------------------------------------------------------------------------
\* Properties
\* ------------------------------------------------------------------------
AttemptIndexes == 1..Len(attempts)

HasAttempt(n) == \E i \in AttemptIndexes : attempts[i].n = n

\* calls into the transcription service: one per call of _transcribe_with_language
ServiceCalls == Len(attempts)

\* positions of transcribe_audio between its first attempt and the final filter
AttemptPhase == {"attempt2", "gate", "attempt3", "attempt4", "filter"}

\* positions after transcribe_audio has returned
AfterTranscribe == {"classify", "heuristics", "llm", "done"}

\* the attempt's text as the filter leaves it, with the prompt of the attempt
FilteredText(a) == FilterPromptFromResult(a.text, PromptText(a.prompt))

\* every attempt with ordinal at most n is shorter than the music threshold
ShortThrough(n) ==
    \A i \in AttemptIndexes :
        attempts[i].n <= n => Len(attempts[i].text) < MIN_RESULT_LENGTH_FOR_MUSIC_PROMPT

\* the text of the earliest attempt among those of maximal length
EarliestLongest ==
    LET i == CHOOSE k \in AttemptIndexes :
                /\ \A j \in AttemptIndexes : Len(attempts[j].text) <= Len(attempts[k].text)
                /\ \A j \in 1..(k - 1) : Len(attempts[j].text) < Len(attempts[k].text)
    IN  attempts[i].text

\* C1: one run of transcribe_audio makes at most 4 calls of the
\* transcription service, whatever the attempts answer and whatever the
\* acoustic verdict is.
C1_AtMostFourCalls == ServiceCalls <= 4

C1_Witness == pc = "filter" /\ ServiceCalls = 4

\* C2: classify_audio returns one of music / speech / noise on every exit
\* path (lexical heuristics, empty transcript, LLM arbitration with any
\* answer, acoustic override, failure of the LLM call).
C2_CategoryClosed ==
    /\ audio_type \in Categories \cup {"none"}
    /\ pc = "done" => audio_type \in Categories

C2_Witness ==
    /\ pc = "done"
    /\ llm_response.kind = "json_object"
    /\ llm_response.classification = "unknown"
    /\ audio_type = "noise"

\* C3 (as claimed): attempts are compared by their filtered lengths, so an
\* attempt that the filter empties never displaces an attempt that survives
\* the filter: when some attempt survives its filter, the text retained
\* after the attempts survives the filter too.
C3_FilteredLengthsCompared ==
    pc = "filter" =>
        ((\E i \in AttemptIndexes : FilteredText(attempts[i]) # <<>>)
            => FilterPromptFromResult(result, TRANSCRIPTION_PROMPT) # <<>>)

\* C4: a later attempt replaces the retained result only when strictly
\* longer, so the retained result is the earliest attempt among those of
\* maximal length.
C4_EarliestLongestKept ==
    pc \in AttemptPhase => result = EarliestLongest

C4_Witness ==
    /\ pc = "filter"
    /\ \E i, j \in AttemptIndexes :
        /\ i < j
        /\ Len(attempts[i].text) = Len(attempts[j].text)
        /\ attempts[i].text # attempts[j].text
        /\ result = attempts[i].text

\* C5: attempt 3 is issued only if the best result after attempts 1-2 is
\* shorter than 100 characters and the acoustic verdict is true; with a
\* false verdict neither attempt 3 nor 4 is issued; attempt 4 is never
\* issued without attempt 3.
C5_MusicAttemptsGated ==
    /\ HasAttempt(3) => (looks_musical = "True" /\ ShortThrough(2))
    /\ pc = "attempt3" => (looks_musical = "True" /\ ShortThrough(2))
    /\ HasAttempt(4) => HasAttempt(3)
    /\ pc = "attempt4" => HasAttempt(3)
    /\ looks_musical = "False" => (~HasAttempt(3) /\ ~HasAttempt(4))
    /\ ~ShortThrough(2) => (~HasAttempt(3) /\ ~HasAttempt(4))

C5_Witness == pc = "filter" /\ HasAttempt(3) /\ HasAttempt(4) /\ ~HasAttempt(2)

\* C6 (as claimed): attempt 4 calls the service with the analyzer's
\* secondary_language and the music prompt.
C6_FourthAttemptUsesSecondaryLanguage ==
    \A i \in AttemptIndexes :
        attempts[i].n = 4 =>
            /\ attempts[i].language = secondary_language
            /\ attempts[i].prompt = "MUSIC_TRANSCRIPTION_PROMPT"

\* C7: a failed service call yields the empty string for that attempt and
\* the chain continues with the gating an empty answer would get: attempt 2
\* follows iff attempt 1 is shorter than 10, attempt 3 iff the attempts so far
\* are shorter than 100 and the acoustic verdict is true, attempt 4 iff
\* attempt 3 ran and everything is still shorter than 100; transcribe_audio
\* returns a text.
C7_FailureIsEmptyAndChainContinues ==
    /\ \A i \in AttemptIndexes : attempts[i].kind # "ok" => attempts[i].text = <<>>
    /\ pc \in {"gate", "attempt3", "attempt4", "filter"} =>
            (HasAttempt(2) <=> NeedsAltLanguage(attempts[1].text))
    /\ pc \in {"attempt4", "filter"} =>
            (HasAttempt(3) <=> (ShortThrough(2) /\ looks_musical = "True"))
    /\ pc = "filter" => (HasAttempt(4) <=> (HasAttempt(3) /\ ShortThrough(3)))
    /\ pc \in AfterTranscribe => transcript_text # NoneText

C7_Witness ==
    /\ pc = "filter"
    /\ Len(attempts) = 4
    /\ \A i \in AttemptIndexes : attempts[i].kind # "ok"

\* C8: the text selected among the attempts goes through the filter once
\* more before it is returned or handed to post-processing; without
\* post-processing the returned transcript is empty or a text the filter
\* leaves unchanged.
C8_FinalFilterApplied ==
    /\ (pc = "post" \/ (pc = "return" /\ post_calls = 0)) =>
            result = FilterPromptFromResult(EarliestLongest, TRANSCRIPTION_PROMPT)
    /\ (pc = "return" /\ ~enable_post_process) =>
            (result = <<>> \/ FilterPromptFromResult(result, TRANSCRIPTION_PROMPT) = result)
    /\ (pc \in AfterTranscribe /\ ~enable_post_process) =>
            FilterPromptFromResult(transcript_text, TRANSCRIPTION_PROMPT) = transcript_text

C8_Witness ==
    /\ pc = "return"
    /\ ~enable_post_process
    /\ EarliestLongest # <<>>
    /\ result = <<>>

\* C9: the filter returns the empty string or its input unchanged, so the
\* output is never longer than the input.
C9_FilterAllOrNothing ==
    pc = "filter_done" =>
        /\ f_return \in {<<>>, f_result}
        /\ Len(f_return) <= Len(f_result)

C9_Witness ==
    /\ pc = "filter_done"
    /\ f_prompt # <<>>
    /\ f_result # <<>>
    /\ f_return = <<>>

\* C10 (as claimed): classify_audio given the crying transcript (a capital
\* Cyrillic A followed by six a) returns noise.
C10_CryingIsNoise ==
    (pc = "done" /\ transcript_text = CryingSample) => audio_type = "noise"

\* the verdict of the acoustic analyzer as classify_audio obtained it
AcousticVerdictTrue ==
    Len(acoustic_features) = 1 /\ IsInstrumentalMusic(acoustic_features[1])

\* C11 (as claimed): classify_audio given "Find me, find me, You can find"
\* returns music by the vocalization heuristic, without consulting the LLM
\* classifier or the acoustic analyzer.
C11_FindMeIsMusic ==
    (pc = "done" /\ transcript_text = FindMeSample) =>
        /\ audio_type = "music"
        /\ llm_calls = 0
        /\ acoustic_features = <<>>

\* C12 (as claimed): classify_audio given the repeated-phrase transcript
\* (Cyrillic "Vsem novichkam, vsem novichkam") fires neither lexical
\* heuristic and is routed to the LLM: the LLM classifier is called once and
\* the category is the LLM's, noise being overridden to music when the
\* acoustic verdict is true.
C12_NovichkamGoesToLLM ==
    (pc = "done" /\ transcript_text = NovichkamSample) =>
        /\ ~LooksLikeNoise(transcript_text)
        /\ ~LooksLikeVocalizations(transcript_text)
        /\ llm_calls = 1
        /\ audio_type = OverriddenCategory(classification_result, AcousticVerdictTrue)

\* C13: for an empty transcript classify_audio returns music when the
\* acoustic analysis succeeded with at least 2 of the 4 signals, noise
\* otherwise, and the LLM classifier is not called.
C13_EmptyTranscriptByAcoustics ==
    (pc = "done" /\ transcript_text = <<>>) =>
        /\ llm_calls = 0
        /\ llm_response = NoLLMResponse
        /\ Len(acoustic_features) = 1
        /\ audio_type =
            IF acoustic_features[1].ok /\ AcousticScore(acoustic_features[1]) >= 2
            THEN "music" ELSE "noise"

C13_Witness ==
    /\ pc = "done"
    /\ transcript_text = <<>>
    /\ Len(acoustic_features) = 1
    /\ acoustic_features[1].ok
    /\ AcousticScore(acoustic_features[1]) = 2
    /\ audio_type = "music"

\* a transcript of at most 3 characters without white space that consists
\* of letters only or of punctuation only
ShortSpacelessToken(text) ==
    LET t == Lower(Strip(text))
    IN  /\ t = Lower(text)
        /\ Len(t) >= 1
        /\ Len(t) <= 3
        /\ \A i \in 1..Len(t) : ~IsSpace(t[i])
        /\ \/ \A i \in 1..Len(t) : IsLowerLetter(t[i])
           \/ \A i \in 1..Len(t) : IsNonWordOrDash(t[i])

\* the text holds a repeated-syllable vocalization (la, na, da, ba, ah, oh, yeah)
MatchesVocalPattern(text) ==
    \E alts \in VocalPatterns : SearchVocalPattern(Lower(text), alts)

\* C14 (as claimed): the noise-lexical rule is checked first and wins: a
\* transcript of at most 3 characters without spaces, letters only or
\* punctuation only, that matches no repeated-syllable pattern is classified
\* noise, without the LLM.
C14_ShortTokenIsNoise ==
    (/\ pc = "done"
     /\ transcript_text # NoneText
     /\ ShortSpacelessToken(transcript_text)
     /\ ~MatchesVocalPattern(transcript_text)) =>
        /\ audio_type = "noise"
        /\ llm_calls = 0

\* C15: after LLM arbitration, a noise answer becomes music exactly when
\* the acoustic verdict is true; a music or speech answer is returned
\* unchanged, and the acoustic analyzer is not even consulted for it.
C15_AcousticOverride ==
    (pc = "done" /\ llm_calls = 1) =>
        /\ classification_result = ClassifyWithAI(llm_response)
        /\ classification_result = "noise" =>
                /\ Len(acoustic_features) = 1
                /\ audio_type = (IF AcousticVerdictTrue THEN "music" ELSE "noise")
        /\ classification_result \in {"music", "speech"} =>
                /\ audio_type = classification_result
                /\ acoustic_features = <<>>

C15_Witness ==
    /\ pc = "done"
    /\ llm_calls = 1
    /\ classification_result = "noise"
    /\ AcousticVerdictTrue
    /\ audio_type = "music"

\* the answer names music / speech (in English or in Russian), any case
NamesMusic(t) == Contains(Lower(t), W_music) \/ Contains(Lower(t), W_muzyka)
NamesSpeech(t) == Contains(Lower(t), W_speech) \/ Contains(Lower(t), W_rech)

\* the answer identifies exactly one of music / speech
IdentifiesOneCategory(r) ==
    \/ r.kind = "json_object" /\ r.classification \in {"music", "speech"}
    \/ r.kind = "text" /\ (NamesMusic(r.text) # NamesSpeech(r.text))

\* C16 (as claimed): _classify_with_ai fails closed: a failed call, a JSON
\* object without a music / speech classification, JSON that is no object, a
\* text naming neither category and a text naming both all yield noise.
C16_FailsClosed ==
    (llm_calls = 1 /\ ~IdentifiesOneCategory(llm_response)) =>
        classification_result = "noise"

\* positions of analyze_audio after _enhance_audio_for_transcription
AfterEnhance == {"analyze", "cleanup", "end"}

HasStage(stage, outcome) ==
    \E i \in 1..Len(stages) : stages[i] = Stage(stage, outcome)

\* C17: the enhancement step never fails: whatever precleaning, separation,
\* relocation, refinement and spectral masking do, no exception leaves
\* _enhance_audio_for_transcription and it returns a path, the file it was
\* given or a vocals file beside it, that exists.
C17_EnhancementNeverFails ==
    /\ ~enh_raised
    /\ pc \in AfterEnhance =>
            returned \in {converted_path,
                          LibrosaOutputPath(converted_path),
                          FinalVocalsPath(converted_path, ".wav"),
                          FinalVocalsPath(converted_path, ".mp3")}
    /\ pc = "analyze" => returned \in files

C17_Witness ==
    /\ pc = "analyze"
    /\ HasStage("preclean", "failed")
    /\ HasStage("relocation", "failed")
    /\ HasStage("spectral_mask", "failed")
    /\ returned = converted_path

\* the separation stage did not deliver a vocal file
SeparationFailed(e) ==
    e.stage = "separation" /\ e.outcome \in {"not_installed", "raise", "no_vocals"}

\* order of the stages of the chain
StageRank(stage) ==
    CASE stage = "preclean" -> 0
      [] stage = "separation" -> 1
      [] stage = "relocation" -> 2
      [] stage = "refinement" -> 3
      [] stage = "cleanup" -> 4
      [] stage = "rmtree" -> 5
      [] stage = "spectral_mask" -> 6

\* C18: the fallback chain is walked in order and no stage is skipped or
\* repeated: when the separation stage delivers no vocal file (not installed,
\* runtime failure, no vocal stem) the spectral-mask stage is the next stage;
\* with the enhancement enabled the file is returned as it came only after
\* the spectral-mask stage has failed.
C18_FallbackOrder ==
    /\ \A i \in 1..Len(stages) :
            SeparationFailed(stages[i]) =>
                IF i < Len(stages) THEN stages[i + 1].stage = "spectral_mask"
                ELSE pc = "spectral_mask"
    /\ \A i, j \in 1..Len(stages) :
            i < j => StageRank(stages[i].stage) < StageRank(stages[j].stage)
    /\ (pc \in AfterEnhance /\ enable_enhancement /\ returned = converted_path) =>
            /\ stages # <<>>
            /\ stages[Len(stages)] = Stage("spectral_mask", "failed")

C18_Witness ==
    /\ pc = "analyze"
    /\ \E i \in 1..Len(stages) :
            /\ stages[i] = Stage("separation", "no_vocals")
            /\ i < Len(stages)
            /\ stages[i + 1] = Stage("spectral_mask", "ok")
    /\ returned = LibrosaOutputPath(converted_path)

\* paths this run has created or written
ArtifactsOfRun ==
    {o.path : o \in {x \in ops : x.op \in {"export", "write", "mkdtemp"}}}

\* C19 (as claimed): when the processing of the file ends, every temporary
\* artifact the run created (converted MP3, precleaned WAV, separation
\* directory, vocals file) has been removed.
C19_TemporariesRemoved ==
    pc = "end" => ArtifactsOfRun \cap files = {}

\* C20: the file handed to analyze_audio is never written, moved or
\* deleted, and no stage of the enhancement writes, moves or removes the file
\* it was given: what is written or unlinked has a derived or a fresh name.
C20_OriginalUntouched ==
    /\ file_path \in files
    /\ \A o \in ops : o.path # file_path
    /\ \A o \in ops :
            o.op \in {"write", "move", "mkdtemp", "rmtree"} => o.path # converted_path
    /\ \A o \in ops :
            o.op = "unlink" =>
                o.path \in {TempMp3, FinalVocalsPath(converted_path, ".wav"),
                            FinalVocalsPath(converted_path, ".mp3")}

C20_Witness ==
    /\ pc = "end"
    /\ converted_path = file_path
    /\ Op("unlink", FinalVocalsPath(file_path, ".wav")) \in ops
    /\ Op("write", LibrosaOutputPath(file_path)) \in ops
    /\ file_path \in files

\* the text transcribe_audio holds after its final filter, before any correction
FilteredSelection == FinalSelection(EarliestLongest)

\* the text is long enough for the correction step
LongEnoughForCorrection(t) ==
    t # <<>> /\ Len(Strip(t)) > MIN_TEXT_LENGTH_FOR_POST_PROCESS

\* C22: post-processing changes the transcript only when it is enabled, the
\* text is long enough and the correction call succeeds: with the flag off or
\* a short text the correction service is not called, and when the call
\* fails the text is returned as it was, without the deterministic polish.
C22_PostProcessGated ==
    pc = "return" =>
        /\ post_calls <= 1
        /\ (~enable_post_process \/ ~LongEnoughForCorrection(FilteredSelection)) =>
                /\ post_calls = 0
                /\ correction_response = NoCorrection
                /\ result = FilteredSelection
        /\ correction_response.kind = "error" => result = FilteredSelection
        /\ result # FilteredSelection =>
                /\ enable_post_process
                /\ LongEnoughForCorrection(FilteredSelection)
                /\ post_calls = 1
                /\ correction_response.kind = "ok"

C22_Witness ==
    /\ pc = "return"
    /\ primary_language = "ru"
    /\ post_calls = 1
    /\ correction_response.kind = "error"
    /\ result = FilteredSelection
    /\ result # <<>>

\* the text the correction step returns for an answer of the service
CorrectedText(c) ==
    IF primary_language = "ru" THEN PolishPunctuationRu(Strip(c.text))
    ELSE Strip(c.text)

\* C23 (as claimed): the stages run in the order transcription,
\* classification, correction: the correction service is not called before
\* the classification verdict exists, and the classifier reads the transcript
\* as the final filter left it, not the corrected text.
C23_CorrectionAfterVerdict ==
    /\ post_calls > 0 => audio_type \in Categories
    /\ (pc \in {"heuristics", "llm", "done"} /\ correction_response.kind = "ok") =>
            transcript_text # CorrectedText(correction_response)

\* what classify_audio returns: the category, a bare string
VerdictFields == {"category"}

\* C25 (as claimed): every verdict of classify_audio carries, beside the
\* category, a confidence value.
C25_VerdictHasConfidence ==
    pc = "done" =>
        /\ audio_type \in Categories
        /\ "confidence" \in VerdictFields

\* the four signals of the acoustic analyzer
Signals == {"rhythmic", "harmonic", "non_flat", "onset_active"}

TrueSignals(a) == {sig \in Signals : a[sig]}

\* C26: _is_instrumental_music always answers with a bool, and answers true
\* iff the feature extraction succeeded and at least 2 of the 4 signals are
\* true; a failed extraction answers false.
C26_TwoOfFourVote ==
    /\ acoustic_verdict \in {"unset", "True", "False"}
    /\ Len(acoustic_features) = 1 =>
            /\ acoustic_verdict \in {"True", "False"}
            /\ acoustic_verdict = "True" <=>
                    (/\ acoustic_features[1].ok
                     /\ Cardinality(TrueSignals(acoustic_features[1])) >= 2)

C26_Witness ==
    /\ Len(acoustic_features) = 1
    /\ acoustic_features[1].ok
    /\ TrueSignals(acoustic_features[1]) = {"non_flat", "onset_active"}
    /\ acoustic_verdict = "True"
    /\ llm_calls = 1

\* C27: first match wins: the LLM classifier is called at most once, and
\* only for a non-empty transcript that neither lexical heuristic caught;
\* once classify_audio holds a transcript, supplied by the caller (even an
\* empty one) or obtained, no step calls the transcription service.
C27_FirstMatchWins ==
    /\ [](/\ llm_calls <= 1
          /\ llm_calls = 1 =>
                /\ transcript_text \notin {NoneText, <<>>}
                /\ ~LooksLikeNoise(transcript_text)
                /\ ~LooksLikeVocalizations(transcript_text))
    /\ [][transcript_text # NoneText => attempts' = attempts]_vars

C27_Witness ==
    /\ pc = "done"
    /\ transcript_text = <<>>
    /\ attempts = <<>>
    /\ llm_calls = 0

\* C28 (as claimed): a result of 1 to 5 characters, all of them among
\* . ! ? , # - _ , is a hallucination: the filter called with a prompt
\* returns the empty string for it.
C28_ShortSymbolsFiltered ==
    (/\ pc = "filter_done"
     /\ f_prompt # <<>>
     /\ Len(f_result) \in 1..5
     /\ \A i \in 1..Len(f_result) : IsSymbol(f_result[i])) =>
        f_return = <<>>

\* the text is not empty but nothing is left of it after trimming
IsBlank(text) == text # <<>> /\ Strip(text) = <<>>

\* trimmed and lower-cased, the text is a run of 1 to 10 sibilants
IsSibilantRun(text) ==
    LET t == Lower(Strip(text))
    IN  /\ Len(t) \in 1..10
        /\ \A i \in 1..Len(t) : IsSibilant(t[i])

C24_FastModeBudget ==
    /\ max_transcription_attempts = 2
    /\ ServiceCalls <= max_transcription_attempts

\* C21 (as claimed): an error while one file of a batch is analysed does
\* not abort the batch: when analyze_all_files ends, the loop has gone
\* through all the files, and the list returned holds the results of the
\* files that were analysed.
C21_BatchContinuesOnError ==
    pc = "batch_done" =>
        /\ batch_index = Len(batch_files) + 1
        /\ batch_return = results

\* C30 (as claimed): list_audio_files never returns a file the pipeline has
\* written beside an input: over repeated runs on a folder, only files the
\* user put there are listed and analysed.
C30_OwnOutputNeverListed ==
    /\ analysed \subseteq user_files
    /\ \A i \in 1..Len(batch_files) : batch_files[i] \in user_files

====
